---- MODULE Spec2Model ----
(***************************************************************************)
(* Model of the reactive core of the smart-home program: the EventBus      *)
(* (include/core/EventBus.h, src/core/EventBus.cpp), the per-device state  *)
(* machine (src/devices/DeviceState.cpp), the CommandInvoker               *)
(* (src/devices/DeviceCommand.cpp), the DeviceController                   *)
(* (src/devices/DeviceController.cpp), the AutomationService               *)
(* (src/services/AutomationService.cpp), the handlers of the sensor        *)
(* pipeline (src/pipeline/DataValidator.cpp, DataFilter.cpp,               *)
(* DataTransformer.cpp, DataPipeline.cpp) and the read cycle of the        *)
(* SensorService (src/services/SensorService.cpp).                         *)
(*                                                                         *)
(* Every thread owns a call stack of the publish calls and the commands in *)
(* flight.  A call into the bus first waits for the registry mutex (req),  *)
(* then runs its critical section (Do...), and a publish then walks its    *)
(* snapshot one handler per step, so that other threads and the handlers   *)
(* themselves can act between two handler invocations.  A device changes   *)
(* state in the step that calls handleEvent; the publish of its            *)
(* DeviceEvent is the bus call that step leaves pending.                   *)
(***************************************************************************)
EXTENDS Integers, Sequences, FiniteSets, TLC

\* ------------------------------------------------------------------ bounds

\* subscribe calls made during a run of the bus (caps nextId_)
MaxBusSubs == 2

\* subscribe calls made during a run of the bus used by one thread
MaxSeqSubs == 3

\* callbacks subscribed to TopicDevice around a standalone context
MaxCtxSubs == 2

\* commands the history holds when a controller of two devices gets a new one
MaxHomeHistory == 1

\* commands the history holds when a controller of one device gets a new one
MaxHistory == 2

\* the length of the history in the specification of the state query
MaxQueryHistory == 1

\* commands the history holds when the controller used next to the
\* AutomationService gets a new one, or when a sensor reading is published
MaxAutoHistory == 1

\* the largest limit of a DataValidator; the values of the readings go from
\* one below the smallest limit, 0, to one above the largest
MaxLimit == 3

\* the significant bits of a double of the DataFilter (53 in the program): the
\* sums and the quotient of the moving average are rounded to that many
Precision == 7

\* the largest windowSize_ of a DataFilter
MaxWindow == 3

\* readings of two sensors sent through one pipeline
MaxReadings == 4

\* subscriptions made by AutomationService::startListening
MaxListens == 2

\* ------------------------------------------------------------------ names

Threads == {"main", "worker"}
NoThread == "nobody"

TopicSensor == "sensor.reading"
TopicAlert  == "alert"
TopicDevice == "device.state_changed"
NoTopic     == "-"

\* topics used by the bus scenarios; a handler of TopicSensor may publish
\* TopicAlert (as AutomationService::executeAction does), never the reverse
BusTopics == {TopicSensor, TopicAlert}

OtherTopic(topic) == IF topic = TopicSensor THEN TopicAlert ELSE TopicSensor

\* What a subscribed callback does when it is invoked.  The callbacks are
\* supplied by the callers of subscribe; each kind is one call the callback
\* makes on the bus (or none, or an exception leaving the callback).
\*   log         returns without touching the bus
\*   throw       an exception leaves the callback
\*   subscribe   subscribes a further log callback to its own topic, as long
\*               as fewer than MaxBusSubs ids have been issued
\*   unsubscribe unsubscribes the id issued right after its own
\*   clearEvent  clears its own topic
\*   clearAll    clears the bus
\*   count       asks subscriberCount of its own topic
\*   publish     publishes the other topic
BusKinds == {"log", "throw", "subscribe", "unsubscribe", "clearEvent",
             "clearAll", "count", "publish"}

KindsFor(topic) == IF topic = TopicSensor THEN BusKinds ELSE BusKinds \ {"publish"}

\* ------------------------------------------------------------------ devices

\* the devices main.cpp registers with the DeviceController
DeviceIds == {"fan_01", "alarm_01"}

\* a DeviceContext constructed by a caller of its own, outside any controller
Solo == "standalone"

CtxIds == DeviceIds \cup {Solo}

\* no DeviceContext exists for the id
Absent == "absent"

\* the classes implementing IDeviceState
StateClasses == {"IdleState", "ActiveState", "ErrorState", "MaintenanceState"}

\* the events the DeviceController sends, and one name no state knows
ControllerEvents == {"activate", "deactivate", "error", "reset", "maintenance", "done"}

EventNames == ControllerEvents \cup {"toggle"}

\* What a callback subscribed to TopicDevice does when it is invoked:
\*   log    returns (the callback of main.cpp)
\*   throw  an exception leaves the callback
\*   react  sends ReactEvent to the context the event came from
CtxKinds == {"log", "throw", "react"}

DevKinds == {"log", "throw"}

ReactEvent == "deactivate"

\* the callback AutomationService::startListening subscribes to TopicSensor:
\* evaluateRules(event)
AutomationKind == "rules"

\* ------------------------------------------------------------------ records

Subscriber(id, kind) == [id |-> id, kind |-> kind]

\* the payload of a publish that carries none of interest
NoData == [deviceId |-> "-", action |-> "-", previousState |-> "-",
           newState |-> "-", hooks |-> <<>>]

\* (mutant) the lambdas of every command refer to the context of fan_01
CommandOfFan(dev, fwd, inv, was) ==
    [dev |-> "fan_01", fwd |-> fwd, inv |-> inv, was |-> was]

\* LambdaCommand: the device whose context its lambdas refer to, the event
\* its execFunc_ sends and the event its undoFunc_ sends; was (for the
\* properties only) is the state the device had when the command was made,
\* kept for the commands made while the history is empty
Command(dev, fwd, inv, was) == [dev |-> dev, fwd |-> fwd, inv |-> inv, was |-> was]

NoCmd == Command("-", "-", "-", "-")

Request(op, topic, id, kind, data) ==
    [op |-> op, topic |-> topic, id |-> id, kind |-> kind, data |-> data]

NoReq == Request("none", NoTopic, 0, "-", NoData)

BusRequest(op, topic, id, kind) == Request(op, topic, id, kind, NoData)

\* the outermost call of a thread: what was called, with which argument (the
\* topic, the device id or the event name), whether it is running, has
\* returned ("ok") or was left by an exception ("throw"), and the value it
\* returned (subscribe: the id; subscriberCount: the count; unsubscribe: the
\* number of entries it erased)
NoRet == [op |-> "none", arg |-> NoTopic, status |-> "none", value |-> 0]

Running(op, arg) == [op |-> op, arg |-> arg, status |-> "running", value |-> 0]

Returned(op, arg) == [op |-> op, arg |-> arg, status |-> "ok", value |-> 0]

Thrown(op, arg) == [op |-> op, arg |-> arg, status |-> "throw", value |-> 0]

\* how a publish call ended: by = "return" or "throw"; n = the number of
\* subscribers the topic had when the call took its snapshot; all = every one
\* of them was invoked, once each, in their order in the list
NoEnded == [by |-> "none", n |-> 0, all |-> TRUE]

\* the type of the readings of the sensor that a pipeline used on its own
\* serves
SensorType == "SensorType::Humidity"

\* SensorReading: the fields the handlers of the pipeline read or write
SensorReading(type, value, valid) ==
    [type |-> type, processedValue |-> value, isValid |-> valid]

NoReading == SensorReading(SensorType, 0, FALSE)

\* currentStrategy_ holds no function given to setCustomStrategy
NoCustom == "none"

NoHandler == "none"

\* ------------------------------------------------------------------ state

VARIABLES
    subscribers,   \* EventBus::subscribers_ : topic -> vector<Subscriber>
    nextId_,       \* EventBus::nextId_
    mutex_,        \* EventBus::mutex_ : the thread holding it, or NoThread
    stack,         \* per thread: the publish calls in flight, innermost last
    req,           \* per thread: the bus call waiting for / holding mutex_
    ret,           \* per thread: the outermost call, and how it ended
    ended,         \* per thread: the publish call that ended last
    live,          \* the <<topic, id>> subscribed and not unsubscribed or cleared since
    currentState_, \* DeviceContext::currentState_ of every context, or Absent
    history_,      \* CommandInvoker::history_
    redoStack_,    \* CommandInvoker::redoStack_, its top last
    reported,      \* the contexts that have published a DeviceEvent since they were constructed
    listening_,    \* AutomationService::listening_
    sensorSubId_,  \* AutomationService::sensorSubId_
    minValid_,     \* DataValidator::minValid_
    maxValid_,     \* DataValidator::maxValid_
    reading,       \* the SensorReading the pipeline is handling, or has returned
    handling,      \* the handler whose handle is about to run on it, or NoHandler
    trail,         \* the handle calls made for it so far: <<handler, reading>>
    handlers_,     \* DataPipeline::handlers_
    next_,         \* BaseDataHandler::next_ of every handler of the chain
    window_,       \* DataFilter::window_, its front first
    windowSize_,   \* DataFilter::windowSize_
    strategyType_, \* DataFilter::strategyType_
    customStrategy, \* the function setCustomStrategy has put in currentStrategy_, or NoCustom
    transforms_    \* DataTransformer::transforms_ : sensor type -> transform

\* the DataFilter and the DataTransformer, and the links of the chain
filterVars == <<handlers_, next_, window_, windowSize_, strategyType_,
                customStrategy, transforms_>>

pipeVars == <<minValid_, maxValid_, reading, handling, trail, filterVars>>

\* the AutomationService: what it knows of its subscription
autoVars == <<listening_, sensorSubId_>>

\* the state outside the bus
devVars == <<currentState_, history_, redoStack_, reported, autoVars, pipeVars>>

busVars == <<subscribers, nextId_, mutex_, stack, req, ret, ended, live>>

\* the state outside the pipeline
homeVars == <<busVars, currentState_, history_, redoStack_, reported, autoVars>>

vars == <<subscribers, nextId_, mutex_, stack, req, ret, ended, live,
          currentState_, history_, redoStack_, reported,
          listening_, sensorSubId_,
          minValid_, maxValid_, reading, handling, trail,
          handlers_, next_, window_, windowSize_, strategyType_,
          customStrategy, transforms_>>

\* ------------------------------------------------------------------ helpers

Top(s) == s[Len(s)]

Pop(s) == SubSeq(s, 1, Len(s) - 1)

Ids(subs) == [i \in 1..Len(subs) |-> subs[i].id]

Ended(by, f) == [by |-> by, n |-> Len(f.start), all |-> (f.invoked = Ids(f.start))]

IsPrefix(p, s) == Len(p) <= Len(s) /\ SubSeq(s, 1, Len(p)) = p

IdSet(subs) == {subs[i].id : i \in 1..Len(subs)}

\* (mutant) the predicate of remove_if compares with >= : later ids go too
RemoveIdAndLater(subs, id) ==
    LET Keep(s) == s.id < id
    IN  SelectSeq(subs, Keep)

\* (mutant) erase(remove_if(...)) without the end iterator: one element goes,
\* the last one when no element has the id
RemoveIdOrLast(subs, id) ==
    LET Keep(s) == s.id # id
    IN  IF id \in IdSet(subs) \/ subs = <<>>
        THEN SelectSeq(subs, Keep)
        ELSE SubSeq(subs, 1, Len(subs) - 1)

\* std::remove_if + erase: drops every element with the id, keeps the order
RemoveId(subs, id) ==
    LET Keep(s) == s.id # id
    IN  SelectSeq(subs, Keep)

\* subscribers_.find(eventName) != end() ? it->second : (nothing)
Registered(topic) == IF topic \in DOMAIN subscribers THEN subscribers[topic] ELSE <<>>

\* subscribers_[eventName].push_back(...): operator[] creates the entry
PushBack(topic, sub) ==
    [x \in (DOMAIN subscribers) \cup {topic} |->
        IF x = topic THEN Append(Registered(topic), sub) ELSE subscribers[x]]

\* subscribers_.erase(eventName)
EraseTopic(topic) == [x \in (DOMAIN subscribers) \ {topic} |-> subscribers[x]]

EmptyMap == [x \in {} |-> <<>>]

\* ------------------------------------------------------------------ publish

\* (mutant) the lock_guard of publish lives to the end of the function
LockKeptAfterSnapshot(t) == t

\* the state of mutex_ when the scoped block of publish is left (EventBus.h:62-67)
LockAfterSnapshot(t) == NoThread

\* (mutant) publish walks the registry's own vector, not a copy of it
FanOutLive(f) == Registered(f.topic)

\* the list publish iterates: its local copy `subs` (EventBus.h:66,68)
FanOut(f) == f.subs

\* a publish in flight: its copy of the list, the position of its loop, and
\* (for the properties) the list as it was and the ids invoked so far
Frame(topic, data) ==
    [kind |-> "publish", topic |-> topic, subs |-> Registered(topic), idx |-> 1,
     start |-> Registered(topic), invoked |-> <<>>, data |-> data, cmd |-> NoCmd]

\* a command in flight in CommandInvoker: kind is "exec" (executeCommand),
\* "undo" (undoLast) or "redo" (redoLast); cmd is the unique_ptr it holds
CommandFrame(kind, cmd) ==
    [kind |-> kind, topic |-> NoTopic, subs |-> <<>>, idx |-> 1,
     start |-> <<>>, invoked |-> <<>>, data |-> NoData, cmd |-> cmd]

\* ------------------------------------------------------------------ returns

\* A call has returned to its caller.  With nothing in flight the caller is
\* the thread's own code; if the innermost call in flight is a publish, the
\* caller is the callback that publish is running, which has made its one
\* call and returns, so the publish moves to its next subscriber; if it is a
\* command, the caller is the command's lambda and the invoker carries on.
ReturnTo(t, stk, value) ==
    /\ stack' = [stack EXCEPT ![t] =
                    IF stk = <<>> THEN <<>>
                    ELSE IF Top(stk).kind = "publish"
                         THEN [stk EXCEPT ![Len(stk)].idx = @ + 1]
                         ELSE stk]
    /\ ret' = [ret EXCEPT ![t] =
                    IF stk = <<>> THEN [@ EXCEPT !.status = "ok", !.value = value]
                    ELSE @]

Idle(t) == stack[t] = <<>> /\ req[t].op = "none" /\ mutex_ # t

\* A call made by a thread's own code: the thread reaches the lock_guard of the
\* called function and gets the mutex (it waits while another thread holds it)
Enter(t, op, r) ==
    /\ Idle(t)
    /\ mutex_ = NoThread
    /\ mutex_' = t
    /\ req' = [req EXCEPT ![t] = r]
    /\ ret' = [ret EXCEPT ![t] = Running(op, r.topic)]
    /\ ended' = [ended EXCEPT ![t] = NoEnded]
    /\ UNCHANGED <<subscribers, nextId_, stack, live, devVars>>

\* ------------------------------------------------------------------ calls made by a thread's own code

Subscribing(t, kinds, max) ==
    \E topic \in BusTopics, kind \in kinds :
        /\ kind \in KindsFor(topic)
        /\ nextId_ < max
        /\ Enter(t, "subscribe", BusRequest("subscribe", topic, 0, kind))

CallSubscribe(t) == Subscribing(t, BusKinds, MaxBusSubs)

CallUnsubscribe(t) ==
    \E topic \in BusTopics, id \in 0..nextId_ :
        /\ Enter(t, "unsubscribe", BusRequest("unsubscribe", topic, id, "-"))

CallClearEvent(t) ==
    \E topic \in BusTopics :
        /\ Enter(t, "clearEvent", BusRequest("clearEvent", topic, 0, "-"))

CallClearAll(t) ==
    /\ Enter(t, "clearAll", BusRequest("clearAll", NoTopic, 0, "-"))

CallSubscriberCount(t) ==
    \E topic \in BusTopics :
        /\ Enter(t, "count", BusRequest("count", topic, 0, "-"))

CallPublish(t) ==
    \E topic \in BusTopics :
        /\ Enter(t, "publish", BusRequest("publish", topic, 0, "-"))

\* ------------------------------------------------------------------ the registry mutex

\* std::lock_guard<std::mutex> lock(mutex_) of a call made by a callback or
\* by transitionTo: the caller waits until the mutex is free
Lock(t) ==
    /\ req[t].op # "none"
    /\ mutex_ # t
    /\ mutex_ = NoThread
    /\ mutex_' = t
    /\ UNCHANGED <<subscribers, nextId_, stack, req, ret, ended, live, devVars>>

\* ------------------------------------------------------------------ critical sections

DoSubscribe(t) ==
    /\ mutex_ = t
    /\ req[t].op = "subscribe"
    /\ nextId_' = nextId_ + 1
    /\ subscribers' = PushBack(req[t].topic, Subscriber(nextId_, req[t].kind))
    /\ mutex_' = NoThread
    /\ req' = [req EXCEPT ![t] = NoReq]
    /\ live' = live \cup {<<req[t].topic, nextId_>>}
    /\ ReturnTo(t, stack[t], nextId_)
    /\ UNCHANGED <<ended, devVars>>

DoUnsubscribe(t) ==
    /\ mutex_ = t
    /\ req[t].op = "unsubscribe"
    /\ subscribers' =
          IF req[t].topic \in DOMAIN subscribers
          THEN [subscribers EXCEPT ![req[t].topic] = RemoveId(@, req[t].id)]
          ELSE subscribers
    /\ live' = live \ {<<req[t].topic, req[t].id>>}
    /\ mutex_' = NoThread
    /\ req' = [req EXCEPT ![t] = NoReq]
    /\ ReturnTo(t, stack[t], Len(Registered(req[t].topic)) - Len(RemoveId(Registered(req[t].topic), req[t].id)))
    /\ UNCHANGED <<nextId_, ended, devVars>>

DoClearEvent(t) ==
    /\ mutex_ = t
    /\ req[t].op = "clearEvent"
    /\ subscribers' = EraseTopic(req[t].topic)
    /\ live' = {e \in live : e[1] # req[t].topic}
    /\ mutex_' = NoThread
    /\ req' = [req EXCEPT ![t] = NoReq]
    /\ ReturnTo(t, stack[t], 0)
    /\ UNCHANGED <<nextId_, ended, devVars>>

DoClearAll(t) ==
    /\ mutex_ = t
    /\ req[t].op = "clearAll"
    /\ subscribers' = EmptyMap
    /\ live' = {}
    /\ mutex_' = NoThread
    /\ req' = [req EXCEPT ![t] = NoReq]
    /\ ReturnTo(t, stack[t], 0)
    /\ UNCHANGED <<nextId_, ended, devVars>>

DoSubscriberCount(t) ==
    /\ mutex_ = t
    /\ req[t].op = "count"
    /\ mutex_' = NoThread
    /\ req' = [req EXCEPT ![t] = NoReq]
    /\ ReturnTo(t, stack[t], Len(Registered(req[t].topic)))
    /\ UNCHANGED <<subscribers, nextId_, ended, live, devVars>>

\* publish, lines 61-67: no entry for the topic -> return at once (the guard is
\* released by the return); otherwise copy the vector and leave the block
DoPublish(t) ==
    /\ mutex_ = t
    /\ req[t].op = "publish"
    /\ req' = [req EXCEPT ![t] = NoReq]
    /\ IF req[t].topic \notin DOMAIN subscribers
       THEN /\ mutex_' = NoThread
            /\ ended' = [ended EXCEPT ![t] = [by |-> "return", n |-> 0, all |-> TRUE]]
            /\ ReturnTo(t, stack[t], 0)
       ELSE /\ mutex_' = LockAfterSnapshot(t)
            /\ stack' = [stack EXCEPT ![t] =
                            Append(@, Frame(req[t].topic, req[t].data))]
            /\ UNCHANGED <<ret, ended>>
    /\ UNCHANGED <<subscribers, nextId_, live, devVars>>

\* ------------------------------------------------------------------ device state machine

\* IDeviceState::getName
GetName(s) ==
    CASE s = "IdleState"        -> "Idle"
      [] s = "ActiveState"      -> "Active"
      [] s = "ErrorState"       -> "Error"
      [] s = "MaintenanceState" -> "Maintenance"

\* IDeviceState::getType, the value of DeviceStateType
GetType(s) ==
    CASE s = "IdleState"        -> "DeviceStateType::Idle"
      [] s = "ActiveState"      -> "DeviceStateType::Active"
      [] s = "ErrorState"       -> "DeviceStateType::Error"
      [] s = "MaintenanceState" -> "DeviceStateType::Maintenance"

\* stateToString(DeviceStateType)
StateToString(type) ==
    CASE type = "DeviceStateType::Idle"        -> "Idle"
      [] type = "DeviceStateType::Active"      -> "Active"
      [] type = "DeviceStateType::Error"       -> "Error"
      [] type = "DeviceStateType::Maintenance" -> "Maintenance"
      [] OTHER                                 -> "Unknown"

\* DeviceContext::getCurrentStateType
GetCurrentStateType(c) == GetType(currentState_[c])

\* the state's handleEvent ends without calling transitionTo
NoTransition == "none"

\* Each handleEvent below gives the class of the state it hands to
\* transitionTo, or NoTransition when it only logs a warning.
IdleState_handleEvent(e) ==
    IF e = "activate" THEN "ActiveState"
    ELSE IF e = "maintenance" THEN "MaintenanceState"
    ELSE NoTransition

ActiveState_handleEvent(e) ==
    IF e = "deactivate" THEN "IdleState"
    ELSE IF e = "error" THEN "ErrorState"
    ELSE IF e = "maintenance" THEN "MaintenanceState"
    ELSE NoTransition

\* (mutant) the Error state also accepts deactivate
ErrorState_acceptsDeactivate(e) ==
    IF e = "reset" \/ e = "deactivate" THEN "IdleState"
    ELSE IF e = "maintenance" THEN "MaintenanceState"
    ELSE NoTransition

ErrorState_handleEvent(e) ==
    IF e = "reset" THEN "IdleState"
    ELSE IF e = "maintenance" THEN "MaintenanceState"
    ELSE NoTransition

\* (mutant) an event Maintenance does not know re-enters Maintenance
MaintenanceState_reentered(e) ==
    IF e = "done" THEN "IdleState"
    ELSE "MaintenanceState"

MaintenanceState_handleEvent(e) ==
    IF e = "done" THEN "IdleState"
    ELSE NoTransition

\* currentState_->handleEvent(*this, event): the virtual call
StateHandleEvent(s, e) ==
    CASE s = "IdleState"        -> IdleState_handleEvent(e)
      [] s = "ActiveState"      -> ActiveState_handleEvent(e)
      [] s = "ErrorState"       -> ErrorState_handleEvent(e)
      [] s = "MaintenanceState" -> MaintenanceState_handleEvent(e)

\* (mutant) the context is constructed in the Active state
InitialStateActive == "ActiveState"

\* DeviceContext::DeviceContext: currentState_(std::make_shared<IdleState>())
InitialState == "IdleState"

\* (mutant) enter is called before the swap, on the state being left
EnteredBeforeSwap(old, new) == old

\* the state whose enter transitionTo calls: currentState_ after the move
Entered(old, new) == new

\* the calls transitionTo makes on state objects before it publishes
Hooks(old, new) == << <<"exit", old>>, <<"enter", Entered(old, new)>> >>

\* DeviceEvent event{deviceId_, "state_change", oldName, currentState_->getName()}
DeviceEventOf(c, old, new) ==
    [deviceId |-> c, action |-> "state_change", previousState |-> GetName(old),
     newState |-> GetName(new), hooks |-> Hooks(old, new)]

\* DeviceContext::transitionTo up to its call of publish: exit, swap, enter,
\* then the DeviceEvent is handed to EventBus::publish
TransitionTo(t, c, new) ==
    /\ currentState_' = [currentState_ EXCEPT ![c] = new]
    /\ reported' = reported \cup {c}
    /\ req' = [req EXCEPT ![t] =
                  Request("publish", TopicDevice, 0, "-",
                          DeviceEventOf(c, currentState_[c], new))]
    /\ UNCHANGED <<autoVars, pipeVars>>

Transits(c, e) == StateHandleEvent(currentState_[c], e) # NoTransition

\* DeviceContext::handleEvent, up to the publish call of a transition or to
\* its return
HandleEvent(t, c, e) ==
    IF Transits(c, e)
    THEN TransitionTo(t, c, StateHandleEvent(currentState_[c], e))
    ELSE /\ req' = [req EXCEPT ![t] = NoReq]
         /\ UNCHANGED <<currentState_, reported, autoVars,
                   pipeVars>>

\* ------------------------------------------------------------------ fan-out

\* the thread is in the loop of its innermost publish, between two callbacks
Dispatching(t) ==
    /\ stack[t] # <<>>
    /\ req[t].op = "none"
    /\ Top(stack[t]).kind = "publish"

\* what the callback of kind k, subscribed as id on topic, asks of the bus
HandlerCall(topic, id, k) ==
    CASE k = "subscribe"   -> IF nextId_ < MaxBusSubs
                              THEN BusRequest("subscribe", topic, 0, "log")
                              ELSE NoReq
      [] k = "unsubscribe" -> BusRequest("unsubscribe", topic, id + 1, "-")
      [] k = "clearEvent"  -> BusRequest("clearEvent", topic, 0, "-")
      [] k = "clearAll"    -> BusRequest("clearAll", NoTopic, 0, "-")
      [] k = "count"       -> BusRequest("count", topic, 0, "-")
      [] k = "publish"     -> BusRequest("publish", OtherTopic(topic), 0, "-")
      [] OTHER             -> NoReq

\* publish, lines 68-70: sub.callback(data) for the next element of the list
Invoke(t) ==
    LET f == Top(stack[t])
        h == FanOut(f)[f.idx]
        g == [f EXCEPT !.invoked = Append(@, h.id)]
        stk == [stack[t] EXCEPT ![Len(stack[t])] = g]
    IN  /\ Dispatching(t)
        /\ f.idx <= Len(FanOut(f))
        /\ h.kind # AutomationKind
        /\ CASE h.kind = "throw" ->
                  \* nothing between the callback and the thread's own code
                  \* catches: every publish in flight is abandoned, and so
                  \* is every command in flight, which is destroyed
                  /\ stack' = [stack EXCEPT ![t] = <<>>]
                  /\ ret' = [ret EXCEPT ![t] = [@ EXCEPT !.status = "throw"]]
                  /\ ended' = [ended EXCEPT ![t] = Ended("throw", g)]
                  /\ UNCHANGED <<req, devVars>>
             [] h.kind = "react" ->
                  \* the callback sends an event to the context
                  /\ HandleEvent(t, f.data.deviceId, ReactEvent)
                  /\ IF Transits(f.data.deviceId, ReactEvent)
                     THEN stack' = [stack EXCEPT ![t] = stk] /\ UNCHANGED ret
                     ELSE ReturnTo(t, stk, 0)
                  /\ UNCHANGED <<ended, history_, redoStack_>>
             [] h.kind \notin {"throw", "react"}
                  /\ HandlerCall(f.topic, h.id, h.kind) = NoReq ->
                  \* the callback calls nothing and returns
                  /\ ReturnTo(t, stk, 0)
                  /\ UNCHANGED <<req, ended, devVars>>
             [] OTHER ->
                  \* the callback makes its call
                  /\ stack' = [stack EXCEPT ![t] = stk]
                  /\ req' = [req EXCEPT ![t] = HandlerCall(f.topic, h.id, h.kind)]
                  /\ UNCHANGED <<ret, ended, devVars>>
        /\ UNCHANGED <<subscribers, nextId_, mutex_, live>>

\* publish, line 71: the loop is over, publish returns
PublishReturn(t) ==
    LET f == Top(stack[t])
    IN  /\ Dispatching(t)
        /\ f.idx > Len(FanOut(f))
        /\ ended' = [ended EXCEPT ![t] = Ended("return", f)]
        /\ ReturnTo(t, Pop(stack[t]), 0)
        /\ UNCHANGED <<subscribers, nextId_, mutex_, req, live, devVars>>

\* ------------------------------------------------------------------ DataValidator

\* (mutant) the limits themselves are out of range
OutOfRangeAtLimits(value, min, max) == value <= min \/ value >= max

\* DataValidator::handle, lines 18-19
OutOfRange(value, min, max) == value < min \/ value > max

\* DataValidator::handle, lines 18-33: the reading as handed to the next
\* handler
Validated(r, min, max) ==
    IF OutOfRange(r.processedValue, min, max)
    THEN [r EXCEPT !.isValid = FALSE]
    ELSE r

Called(handler, r) == [handler |-> handler, reading |-> r]

\* the handler after the DataValidator in the chain: its next_
NextHandler == "next_"

\* (mutant) only the head is linked
ChainOfHeadOnly(handlers) ==
    [h \in {handlers[i] : i \in 1..Len(handlers)} |->
        IF h = handlers[1] /\ Len(handlers) > 1 THEN handlers[2] ELSE NoHandler]

\* DataPipeline::addHandler, lines 14-17: every handler of handlers_ is linked
\* to the one after it; the last one has the next_ it was constructed with,
\* none
Chain(handlers) ==
    [h \in {handlers[i] : i \in 1..Len(handlers)} |->
        LET i == CHOOSE j \in 1..Len(handlers) : handlers[j] = h
        IN  IF i < Len(handlers) THEN handlers[i + 1] ELSE NoHandler]

\* DataPipeline::head_: handlers_.front() since the first addHandler (line 12),
\* null before it
head_ == IF handlers_ = <<>> THEN NoHandler ELSE handlers_[1]

\* no pipeline is in use
NoPipeline ==
    /\ minValid_ = 0
    /\ maxValid_ = 0
    /\ reading = NoReading
    /\ handling = NoHandler
    /\ trail = <<>>
    /\ handlers_ = <<>>
    /\ next_ = [h \in {} |-> NoHandler]
    /\ window_ = <<>>
    /\ windowSize_ = 0
    /\ strategyType_ = "None"
    /\ customStrategy = NoCustom
    /\ transforms_ = [type \in {} |-> "identity"]

\* a reading enters the DataValidator
EnterValidator ==
    \E value \in -1..(MaxLimit + 1), valid \in BOOLEAN :
        /\ handling = NoHandler
        /\ reading' = SensorReading(SensorType, value, valid)
        /\ handling' = "DataValidator"
        /\ trail' = <<>>
        /\ UNCHANGED <<minValid_, maxValid_, filterVars, homeVars>>

\* DataValidator::handle: a reading already invalid is returned at once; any
\* other is checked against the limits and handed to BaseDataHandler::handle,
\* that is to next_->handle
DataValidator_handle ==
    /\ handling = "DataValidator"
    /\ trail' = Append(trail, Called("DataValidator", reading))
    /\ IF ~reading.isValid
       THEN /\ handling' = NoHandler
            /\ UNCHANGED reading
       ELSE /\ handling' = next_["DataValidator"]
            /\ reading' = Validated(reading, minValid_, maxValid_)
    /\ UNCHANGED <<minValid_, maxValid_, filterVars, homeVars>>

\* the handle of the next handler, which is BaseDataHandler::handle: it hands
\* what it is given to its own next_, and returns it if it has none
NextHandler_handle ==
    /\ handling = NextHandler
    /\ trail' = Append(trail, Called(NextHandler, reading))
    /\ handling' = next_[NextHandler]
    /\ UNCHANGED <<reading, minValid_, maxValid_, filterVars, homeVars>>

\* DataValidator(minValid, maxValid) constructed, no reading handled yet
InitValidator ==
    \E min \in 0..MaxLimit, max \in 0..MaxLimit :
        /\ minValid_ = min
        /\ maxValid_ = max
        /\ reading = NoReading
        /\ handling = NoHandler
        /\ trail = <<>>
        /\ handlers_ = <<"DataValidator", NextHandler>>
        /\ next_ = Chain(handlers_)
        /\ window_ = <<>>
        /\ windowSize_ = 0
        /\ strategyType_ = "None"
        /\ customStrategy = NoCustom
        /\ transforms_ = [type \in {} |-> "identity"]
        /\ subscribers = [x \in {} |-> <<>>]
        /\ nextId_ = 0
        /\ mutex_ = NoThread
        /\ stack = [t \in Threads |-> <<>>]
        /\ req = [t \in Threads |-> NoReq]
        /\ ret = [t \in Threads |-> NoRet]
        /\ ended = [t \in Threads |-> NoEnded]
        /\ live = {}
        /\ currentState_ = [c \in CtxIds |-> Absent]
        /\ history_ = <<>>
        /\ redoStack_ = <<>>
        /\ reported = {}
        /\ listening_ = FALSE
        /\ sensorSubId_ = 0

NextValidator ==
    \/ EnterValidator
    \/ DataValidator_handle
    \/ NextHandler_handle

SpecValidator == InitValidator /\ [][NextValidator]_vars

\* ------------------------------------------------------------------ doubles

\* A double of the pipeline is the integer number of units of
\* 2^-(Precision - 1) it holds, so that 1.0 is Unit.  The doubles from 1.0
\* up are the multiples of their Spacing, and an operation yields the double
\* nearest to its exact result, the one of even significand at a tie.
Unit == 2 ^ (Precision - 1)

Real(x) == x * Unit

RECURSIVE Spacing(_)
Spacing(x) == IF x < 2 * Unit THEN 1 ELSE 2 * Spacing(x \div 2)

\* the double nearest to n / d, for n / d >= 1.0
Rounded(n, d) ==
    LET s    == Spacing(n \div d)
        low  == ((n \div d) \div s) * s
        rest == n - low * d
    IN  IF 2 * rest < s * d THEN low
        ELSE IF 2 * rest > s * d THEN low + s
        ELSE IF (low \div s) % 2 = 0 THEN low ELSE low + s

\* (mutant) the sum leaves the new value out
RECURSIVE AccumulateWindowOnly(_, _)
AccumulateWindowOnly(window, init) ==
    IF window = <<>> THEN 0
    ELSE Rounded(Head(window) + AccumulateWindowOnly(Tail(window), init), 1)

\* std::accumulate(window.begin(), window.end(), init): one rounded addition
\* per element, front first
RECURSIVE Accumulate(_, _)
Accumulate(window, init) ==
    IF window = <<>> THEN init
    ELSE Accumulate(Tail(window), Rounded(init + Head(window), 1))

\* std::abs(a - b) > maxDelta: the difference of two doubles of the model is
\* compared exactly
Abs(x) == IF x < 0 THEN 0 - x ELSE x

\* ------------------------------------------------------------------ DataFilter

FilterStrategies == {"None", "MovingAverage", "Threshold"}

\* DataFilter::movingAverage
movingAverage(newVal, window) ==
    Rounded(Accumulate(window, newVal), Len(window) + 1)

\* DataFilter::thresholdFilter
maxDelta == Real(5)

thresholdFilter(newVal, window) ==
    IF window = <<>> THEN newVal
    ELSE LET lastVal == window[Len(window)]
         IN  IF Abs(newVal - lastVal) > maxDelta THEN lastVal ELSE newVal

\* functions given to setCustomStrategy, of type
\* double(double, std::deque<double>&): "oldest" returns the front of the
\* window (the value itself on an empty one) and leaves the window alone;
\* "hoard" returns the value and pushes it on the window it is handed
CustomStrategies == {"oldest", "hoard"}

\* what the custom function returns
CustomOutput(func, newVal, window) ==
    CASE func = "oldest" -> IF window = <<>> THEN newVal ELSE window[1]
      [] func = "hoard"  -> newVal

\* what the custom function leaves in the window
CustomWindow(func, newVal, window) ==
    CASE func = "oldest" -> window
      [] func = "hoard"  -> Append(window, newVal)

\* the function that currentStrategy_ holds: the one setStrategy has chosen
\* for strategyType_, or the one setCustomStrategy has put there since
currentStrategy_(newVal, window) ==
    IF customStrategy # NoCustom
    THEN CustomOutput(customStrategy, newVal, window)
    ELSE CASE strategyType_ = "None"          -> newVal
           [] strategyType_ = "MovingAverage" -> movingAverage(newVal, window)
           [] strategyType_ = "Threshold"     -> thresholdFilter(newVal, window)

\* the window when the call of currentStrategy_ has returned: the functions
\* of DataFilter only read it
StrategyLeaves(newVal, window) ==
    IF customStrategy # NoCustom
    THEN CustomWindow(customStrategy, newVal, window)
    ELSE window

\* (mutant) the window keeps the smoothed output
PushedOutput(window, original, output, size) ==
    LET grown == Append(window, output)
    IN  IF Len(grown) > size THEN Tail(grown) ELSE grown

\* DataFilter::handle, lines 54-57: push_back, then one pop_front if the window
\* is over windowSize_
Pushed(window, original, output, size) ==
    LET grown == Append(window, original)
    IN  IF Len(grown) > size THEN Tail(grown) ELSE grown

\* (mutant) the filter smooths whatever it is given
PassedByFilterNever(r) == FALSE

\* DataFilter::handle, lines 46-48: the reading is handed on as it is
PassedByFilter(r) == ~r.isValid

\* DataFilter::handle
DataFilter_handle ==
    /\ handling = "DataFilter"
    /\ trail' = Append(trail, Called("DataFilter", reading))
    /\ handling' = next_["DataFilter"]
    /\ IF PassedByFilter(reading)
       THEN UNCHANGED <<reading, window_>>
       ELSE LET original == reading.processedValue
                output   == currentStrategy_(original, window_)
            IN  /\ reading' = [reading EXCEPT !.processedValue = output]
                /\ window_' = Pushed(StrategyLeaves(original, window_), original,
                                      output, windowSize_)
    /\ UNCHANGED <<minValid_, maxValid_, handlers_, next_, windowSize_,
                   strategyType_, customStrategy, transforms_, homeVars>>

\* ------------------------------------------------------------------ DataTransformer

\* the transforms registered: the identity that DataPipeline::createDefault
\* registers for Humidity, and a conversion that doubles the value
Transforms == {"identity", "double"}

Transformed(transform, value) ==
    CASE transform = "identity" -> value
      [] transform = "double"   -> 2 * value

\* (mutant) the transform is applied to whatever reading comes
PassedByTransformerNever(r) == FALSE

\* DataTransformer::handle, lines 7-9
PassedByTransformer(r) == ~r.isValid

\* DataTransformer::handle
DataTransformer_handle ==
    /\ handling = "DataTransformer"
    /\ trail' = Append(trail, Called("DataTransformer", reading))
    /\ handling' = next_["DataTransformer"]
    /\ IF ~PassedByTransformer(reading) /\ reading.type \in DOMAIN transforms_
       THEN reading' = [reading EXCEPT !.processedValue =
                           Transformed(transforms_[reading.type], @)]
       ELSE UNCHANGED reading
    /\ UNCHANGED <<minValid_, maxValid_, filterVars, homeVars>>

\* ------------------------------------------------------------------ DataPipeline

\* the values the sensor delivers: four rising ones, and the largest double
\* with one significant bit to spare
Samples == {Real(50), Real(52), Real(54), Real(56), Real(Unit - 1)}

\* the limits of the DataValidator: all samples in range, or some
Limits == {<<Real(0), Real(100)>>, <<Real(52), Real(54)>>}

TransformMaps ==
    {[type \in {} |-> "identity"]}
        \cup {[type \in {"SensorType::Humidity"} |-> f] : f \in Transforms}

\* DataPipeline::process: head_->handle(reading) is about to run, or, with no
\* head_, the reading is returned as it came
Process ==
    \E value \in Samples, valid \in BOOLEAN :
        /\ handling = NoHandler
        /\ reading' = SensorReading(SensorType, value, valid)
        /\ handling' = head_
        /\ trail' = <<>>
        /\ UNCHANGED <<minValid_, maxValid_, filterVars, homeVars>>

\* the state outside the pipeline when nothing but the pipeline is in use
NoHome ==
    /\ subscribers = [x \in {} |-> <<>>]
    /\ nextId_ = 0
    /\ mutex_ = NoThread
    /\ stack = [t \in Threads |-> <<>>]
    /\ req = [t \in Threads |-> NoReq]
    /\ ret = [t \in Threads |-> NoRet]
    /\ ended = [t \in Threads |-> NoEnded]
    /\ live = {}
    /\ currentState_ = [c \in CtxIds |-> Absent]
    /\ history_ = <<>>
    /\ redoStack_ = <<>>
    /\ reported = {}
    /\ listening_ = FALSE
    /\ sensorSubId_ = 0

\* the pipeline built as DataPipeline::createDefault builds it, with the
\* limits, the strategy, the window size and the transforms of the
\* configuration, and an empty window
InitPipeline ==
    \E limits \in Limits, strategy \in FilterStrategies,
       size \in 0..MaxWindow, transforms \in TransformMaps :
        /\ minValid_ = limits[1]
        /\ maxValid_ = limits[2]
        /\ reading = NoReading
        /\ handling = NoHandler
        /\ trail = <<>>
        /\ handlers_ = <<"DataValidator", "DataFilter", "DataTransformer">>
        /\ next_ = Chain(handlers_)
        /\ window_ = <<>>
        /\ windowSize_ = size
        /\ strategyType_ = strategy
        /\ customStrategy = NoCustom
        /\ transforms_ = transforms
        /\ NoHome

NextPipeline ==
    \/ Process
    \/ DataValidator_handle
    \/ DataFilter_handle
    \/ DataTransformer_handle

SpecPipeline == InitPipeline /\ [][NextPipeline]_vars

\* ------------------------------------------------------------------ specification of the bus

Init ==
    /\ subscribers = EmptyMap
    /\ nextId_ = 0
    /\ mutex_ = NoThread
    /\ stack = [t \in Threads |-> <<>>]
    /\ req = [t \in Threads |-> NoReq]
    /\ ret = [t \in Threads |-> NoRet]
    /\ ended = [t \in Threads |-> NoEnded]
    /\ live = {}
    /\ currentState_ = [c \in CtxIds |-> Absent]
    /\ history_ = <<>>
    /\ redoStack_ = <<>>
    /\ reported = {}
    /\ listening_ = FALSE
    /\ sensorSubId_ = 0
    /\ NoPipeline

\* the steps that carry on a call already made
Progress(t) ==
    \/ Lock(t)
    \/ DoSubscribe(t)
    \/ DoUnsubscribe(t)
    \/ DoClearEvent(t)
    \/ DoClearAll(t)
    \/ DoSubscriberCount(t)
    \/ DoPublish(t)
    \/ Invoke(t)
    \/ PublishReturn(t)

BusCall(t) ==
    \/ CallSubscribe(t)
    \/ CallUnsubscribe(t)
    \/ CallClearEvent(t)
    \/ CallClearAll(t)
    \/ CallSubscriberCount(t)
    \/ CallPublish(t)

\* the main thread sets the bus up and tears it down (Application, main.cpp);
\* the worker is the sensor loop and publishes (SensorService::sensorLoop)
Next ==
    \/ BusCall("main")
    \/ Progress("main")
    \/ CallPublish("worker")
    \/ Progress("worker")

Spec == Init /\ [][Next]_vars

\* ------------------------------------------------------------------ the bus used by one thread

\* One thread, callbacks that only log: the calls follow one another and every
\* publish runs to its end before the next call.
CallSubscribeLog(t) == Subscribing(t, {"log"}, MaxSeqSubs)

NextSeq ==
    \/ CallSubscribeLog("main")
    \/ CallUnsubscribe("main")
    \/ CallClearEvent("main")
    \/ CallClearAll("main")
    \/ CallSubscriberCount("main")
    \/ CallPublish("main")
    \/ DoSubscribe("main")
    \/ DoUnsubscribe("main")
    \/ DoClearEvent("main")
    \/ DoClearAll("main")
    \/ DoSubscriberCount("main")
    \/ DoPublish("main")
    \/ Invoke("main")
    \/ PublishReturn("main")

SpecSeq == Init /\ [][NextSeq]_vars

\* ------------------------------------------------------------------ a standalone context

\* the call starts: the publish that ended last is forgotten
Begin(t) ==
    /\ Idle(t)
    /\ ended' = [ended EXCEPT ![t] = NoEnded]
    /\ UNCHANGED <<subscribers, nextId_, mutex_, live>>

\* DeviceContext::handleEvent called by the owner of the standalone context
CallHandleEvent(t) ==
    \E e \in EventNames :
        /\ Begin(t)
        /\ currentState_[Solo] # Absent
        /\ HandleEvent(t, Solo, e)
        /\ ret' = [ret EXCEPT ![t] = IF Transits(Solo, e)
                                     THEN Running("handleEvent", e)
                                     ELSE Returned("handleEvent", e)]
        /\ UNCHANGED <<stack, history_, redoStack_>>

\* ------------------------------------------------------------------ DeviceController

RegisterDevice(t, d) ==
    /\ Begin(t)
    /\ IF currentState_[d] # Absent
       THEN \* "Device already registered": warning, return
            UNCHANGED currentState_
       ELSE \* devices_[deviceId] = std::make_unique<DeviceContext>(deviceId)
            currentState_' = [currentState_ EXCEPT ![d] = InitialState]
    /\ ret' = [ret EXCEPT ![t] = Returned("registerDevice", d)]
    /\ UNCHANGED <<stack, req, history_, redoStack_, reported, autoVars,
                   pipeVars>>

\* the devices whose context a command held by the invoker refers to
Referenced ==
    {history_[i].dev : i \in 1..Len(history_)}
        \cup {redoStack_[i].dev : i \in 1..Len(redoStack_)}

\* devices_.erase(deviceId); called here for devices no held command refers to
RemoveDevice(t, d) ==
    /\ Begin(t)
    /\ d \notin Referenced
    /\ currentState_' = [currentState_ EXCEPT ![d] = Absent]
    /\ reported' = reported \ {d}
    /\ UNCHANGED <<autoVars, pipeVars>>
    /\ ret' = [ret EXCEPT ![t] = Returned("removeDevice", d)]
    /\ UNCHANGED <<stack, req, history_, redoStack_>>

\* CommandInvoker::executeCommand, line 35: cmd->execute(), up to the publish
\* call of a transition or to its return
ExecuteCommand(t, cmd) ==
    /\ stack' = [stack EXCEPT ![t] = Append(@, CommandFrame("exec", cmd))]
    /\ HandleEvent(t, cmd.dev, cmd.fwd)
    /\ UNCHANGED <<history_, redoStack_>>

NotKept == "-"

\* the state of the device before the first command of a history
StateBefore(d) == IF history_ = <<>> THEN currentState_[d] ELSE NotKept

\* (mutant) getContext answers for an id that is not registered
DeviceNotFoundIgnored(op, d) == Returned(op, d)

\* getContext: throw std::runtime_error("Device not found: " + deviceId),
\* which leaves the operation
DeviceNotFound(op, d) == Thrown(op, d)

\* the body shared by the six operations of the controller: getContext
\* (throws for an id that is not registered), the LambdaCommand of the two
\* events, executeCommand
DeviceCommand(t, op, d, fwd, inv, max) ==
    /\ Begin(t)
    /\ Len(history_) < max
    /\ IF currentState_[d] = Absent
       THEN /\ ret' = [ret EXCEPT ![t] = DeviceNotFound(op, d)]
            /\ UNCHANGED <<stack, req, devVars>>
       ELSE /\ ret' = [ret EXCEPT ![t] = Running(op, d)]
            /\ ExecuteCommand(t, Command(d, fwd, inv, StateBefore(d)))

ActivateDevice(t, d, max) ==
    DeviceCommand(t, "activateDevice", d, "activate", "deactivate", max)

DeactivateDevice(t, d, max) ==
    DeviceCommand(t, "deactivateDevice", d, "deactivate", "activate", max)

TriggerError(t, d, max) ==
    DeviceCommand(t, "triggerError", d, "error", "reset", max)

ResetDevice(t, d, max) ==
    DeviceCommand(t, "resetDevice", d, "reset", "error", max)

StartMaintenance(t, d, max) ==
    DeviceCommand(t, "startMaintenance", d, "maintenance", "done", max)

CompleteMaintenance(t, d, max) ==
    DeviceCommand(t, "completeMaintenance", d, "done", "maintenance", max)

\* the command in flight whose lambda has returned
CommandDone(t, kind) ==
    /\ stack[t] # <<>>
    /\ req[t].op = "none"
    /\ Top(stack[t]).kind = kind

\* (mutant) executeCommand leaves the redo stack as it is
RedoKeptAfterExecute(redo) == redo

\* while (!redoStack_.empty()) redoStack_.pop()
RedoAfterExecute(redo) == <<>>

\* executeCommand, lines 36-39
ExecuteCommandReturn(t) ==
    /\ CommandDone(t, "exec")
    /\ history_' = Append(history_, Top(stack[t]).cmd)
    /\ redoStack_' = RedoAfterExecute(redoStack_)
    /\ ReturnTo(t, Pop(stack[t]), 0)
    /\ UNCHANGED <<subscribers, nextId_, mutex_, live, req, ended, currentState_, reported, autoVars,
                   pipeVars>>

\* (mutant) an empty history or redo stack is reported by an exception
NothingToDoThrows(op) == Thrown(op, NoTopic)

\* "Nothing to undo" / "Nothing to redo": a warning is logged and the call
\* returns
NothingToDo(op) == Returned(op, NoTopic)

\* DeviceController::undoLastCommand -> CommandInvoker::undoLast, lines 42-50
UndoLastCommand(t) ==
    /\ Begin(t)
    /\ IF history_ = <<>>
       THEN /\ ret' = [ret EXCEPT ![t] = NothingToDo("undoLastCommand")]
            /\ UNCHANGED <<stack, req, devVars>>
       ELSE /\ ret' = [ret EXCEPT ![t] = Running("undoLastCommand", NoTopic)]
            /\ history_' = Pop(history_)
            /\ stack' = [stack EXCEPT ![t] = Append(@, CommandFrame("undo", Top(history_)))]
            /\ HandleEvent(t, Top(history_).dev, Top(history_).inv)
            /\ UNCHANGED redoStack_

\* (mutant) the command undone is dropped
PushDropped(redo, cmd) == redo

\* undoLast, line 51: redoStack_.push(std::move(cmd))
Push(redo, cmd) == Append(redo, cmd)

\* undoLast, line 51
UndoLastReturn(t) ==
    /\ CommandDone(t, "undo")
    /\ redoStack_' = Push(redoStack_, Top(stack[t]).cmd)
    /\ ReturnTo(t, Pop(stack[t]), 0)
    /\ UNCHANGED <<subscribers, nextId_, mutex_, live, req, ended, currentState_, history_, reported, autoVars,
                   pipeVars>>

\* DeviceController::redoLastCommand -> CommandInvoker::redoLast, lines 55-63
RedoLastCommand(t) ==
    /\ Begin(t)
    /\ IF redoStack_ = <<>>
       THEN /\ ret' = [ret EXCEPT ![t] = NothingToDo("redoLastCommand")]
            /\ UNCHANGED <<stack, req, devVars>>
       ELSE /\ ret' = [ret EXCEPT ![t] = Running("redoLastCommand", NoTopic)]
            /\ redoStack_' = Pop(redoStack_)
            /\ stack' = [stack EXCEPT ![t] = Append(@, CommandFrame("redo", Top(redoStack_)))]
            /\ HandleEvent(t, Top(redoStack_).dev, Top(redoStack_).fwd)
            /\ UNCHANGED history_

\* redoLast, line 64
RedoLastReturn(t) ==
    /\ CommandDone(t, "redo")
    /\ history_' = Append(history_, Top(stack[t]).cmd)
    /\ ReturnTo(t, Pop(stack[t]), 0)
    /\ UNCHANGED <<subscribers, nextId_, mutex_, live, req, ended, currentState_, redoStack_, reported, autoVars,
                   pipeVars>>

\* DeviceController::getDeviceState: DeviceStateType::Idle for an id that is
\* not in devices_, the type of the current state otherwise
GetDeviceState(d) ==
    IF currentState_[d] = Absent THEN "DeviceStateType::Idle"
                                 ELSE GetCurrentStateType(d)

\* ------------------------------------------------------------------ AutomationService

\* the values of SensorType
SensorTypes == {"SensorType::Temperature", "SensorType::Humidity", "SensorType::Motion"}

NoType == "no SensorType"

\* the sensorType strings of the SensorEvents published: the three names
\* sensorTypeToString gives, and its "Unknown"
SensorTypeNames == {"Temperature", "Humidity", "Motion", "Unknown"}

\* the threshold of the rules, and the values of the readings around it
Threshold == Real(30)

SensorValues == {Real(29), Real(30), Real(31)}

SensorEvent(type, value) == [sensorType |-> type, value |-> value]

\* AutomationService::Rule
Rule(name, type, above, target, action, severity) ==
    [name |-> name, sensorType |-> type, threshold |-> Threshold,
     triggerAbove |-> above, targetDeviceId |-> target, action |-> action,
     alertSeverity |-> severity]

\* the rule lists of the services: the first rule of initialize alone; two
\* rules of one sensor type with two targets, the second without alert; two
\* rules of one sensor type with one target; a rule that triggers below the
\* threshold and a rule whose action is reset; the two rules of initialize
RuleLists ==
    { << Rule("HighTemp_ActivateFan", "SensorType::Temperature", TRUE, "fan_01", "activate", 2) >>,
      << Rule("HighTemp_ActivateFan", "SensorType::Temperature", TRUE, "fan_01", "activate", 2),
         Rule("HighTemp_ActivateAlarm", "SensorType::Temperature", TRUE, "alarm_01", "activate", 0) >>,
      << Rule("HighTemp_ActivateFan", "SensorType::Temperature", TRUE, "fan_01", "activate", 2),
         Rule("HighTemp_DeactivateFan", "SensorType::Temperature", TRUE, "fan_01", "deactivate", 1) >>,
      << Rule("LowTemp_DeactivateFan", "SensorType::Temperature", FALSE, "fan_01", "deactivate", 3),
         Rule("HighTemp_ResetFan", "SensorType::Temperature", TRUE, "fan_01", "reset", 2) >>,
      << Rule("HighTemp_ActivateFan", "SensorType::Temperature", TRUE, "fan_01", "activate", 2),
         Rule("Motion_ActivateAlarm", "SensorType::Motion", TRUE, "alarm_01", "activate", 3) >> }

AutomationSubscriber(id, rules) == [id |-> id, kind |-> AutomationKind, rules |-> rules]

\* AlertEvent alert{rule.name, rule.alertMessage + ..., rule.alertSeverity}
AlertEventOf(rule) == [source |-> rule.name, severity |-> rule.alertSeverity]

\* (mutant) a sensorType string that names no SensorType is taken for Temperature
ToSensorTypeOrTemperature(name) ==
    CASE name = "Humidity" -> "SensorType::Humidity"
      [] name = "Motion"   -> "SensorType::Motion"
      [] OTHER             -> "SensorType::Temperature"

\* evaluateRules, lines 106-110: the string of the event back to the enum;
\* NoType stands for the final `else return`
ToSensorType(name) ==
    CASE name = "Temperature" -> "SensorType::Temperature"
      [] name = "Humidity"    -> "SensorType::Humidity"
      [] name = "Motion"      -> "SensorType::Motion"
      [] OTHER                -> NoType

\* evaluateRules, lines 115-117
Triggered(rule, event) ==
    IF rule.triggerAbove THEN event.value > rule.threshold
                         ELSE event.value < rule.threshold

\* (mutant) the rule does not look at the state of its target
NeedsActionWhateverState(rule) == rule.action \in {"activate", "deactivate"}

\* evaluateRules, lines 122-135: the guard of executeAction
NeedsAction(rule) ==
    \/ /\ rule.action = "activate"
       /\ GetDeviceState(rule.targetDeviceId) = "DeviceStateType::Idle"
    \/ /\ rule.action = "deactivate"
       /\ GetDeviceState(rule.targetDeviceId) = "DeviceStateType::Active"

\* (mutant) an alert is published whatever the severity
AlertConfiguredAlways(rule) == TRUE

\* executeAction, line 149
AlertConfigured(rule) == rule.alertSeverity > 0

\* an evaluateRules call in flight: the event, rules_, the position of its
\* loop, where it goes on when the call it made returns ("guard": with the
\* rule at idx; "alert": with the alert of the rule at idx) and, for the
\* properties, the rules it has compared with the event, the commands it
\* has handed to the controller and the alerts it has handed to publish
RulesFrame(rules, event) ==
    [kind |-> AutomationKind, topic |-> NoTopic, subs |-> <<>>, idx |-> 1,
     start |-> <<>>, invoked |-> <<>>, data |-> event, cmd |-> NoCmd,
     rules |-> rules, pc |-> "guard", seen |-> <<>>, cmds |-> <<>>, alerts |-> <<>>]

\* a sensor reading is published by the thread's own code
PublishReading(t) ==
    \E type \in SensorTypeNames, value \in SensorValues :
        /\ Len(history_) <= MaxAutoHistory
        /\ Enter(t, "publish", Request("publish", TopicSensor, 0, "-",
                                       SensorEvent(type, value)))

\* publish invokes the callback of the AutomationService: evaluateRules up
\* to its loop
InvokeRules(t) ==
    LET f == Top(stack[t])
        h == FanOut(f)[f.idx]
        g == [f EXCEPT !.invoked = Append(@, h.id)]
        stk == [stack[t] EXCEPT ![Len(stack[t])] = g]
    IN  /\ Dispatching(t)
        /\ f.idx <= Len(FanOut(f))
        /\ h.kind = AutomationKind
        /\ IF ToSensorType(f.data.sensorType) = NoType
           THEN ReturnTo(t, stk, 0)
           ELSE /\ stack' = [stack EXCEPT ![t] = Append(stk, RulesFrame(h.rules, f.data))]
                /\ UNCHANGED ret
        /\ UNCHANGED <<subscribers, nextId_, mutex_, req, ended, live, devVars>>

\* the thread is in the loop of evaluateRules or in executeAction
Evaluating(t, pc) ==
    /\ stack[t] # <<>>
    /\ req[t].op = "none"
    /\ Top(stack[t]).kind = AutomationKind
    /\ Top(stack[t]).pc = pc

\* the events of the command executeAction asks the controller for (lines
\* 140-146): <<forward, inverse>>, or <<>> for an action it does not know
ActionEvents(action) ==
    CASE action = "activate"   -> <<"activate", "deactivate">>
      [] action = "deactivate" -> <<"deactivate", "activate">>
      [] action = "reset"      -> <<"reset", "error">>
      [] OTHER                 -> <<>>

\* one turn of the loop of evaluateRules, up to the return of the turn or to
\* the call executeAction makes on the controller
EvaluateRule(t) ==
    LET f == Top(stack[t])
        rule == f.rules[f.idx]
        matches == rule.sensorType = ToSensorType(f.data.sensorType)
        seen == IF matches THEN Append(f.seen, f.idx) ELSE f.seen
        skip == [f EXCEPT !.idx = @ + 1, !.seen = seen]
        ev == ActionEvents(rule.action)
        d == rule.targetDeviceId
        call == [f EXCEPT !.pc = "alert", !.seen = seen,
                          !.cmds = IF ev = <<>> THEN @ ELSE Append(@, f.idx)]
        under == Pop(stack[t])
    IN  /\ Evaluating(t, "guard")
        /\ f.idx <= Len(f.rules)
        /\ IF ~matches \/ ~Triggered(rule, f.data) \/ ~NeedsAction(rule)
           THEN \* continue
                /\ stack' = [stack EXCEPT ![t] = Append(under, skip)]
                /\ UNCHANGED <<req, ret, ended, devVars>>
           ELSE IF ev = <<>>
           THEN \* executeAction calls nothing on the controller
                /\ stack' = [stack EXCEPT ![t] = Append(under, call)]
                /\ UNCHANGED <<req, ret, ended, devVars>>
           ELSE IF currentState_[d] = Absent
           THEN \* getContext throws; nothing catches before the thread's own code
                /\ stack' = [stack EXCEPT ![t] = <<>>]
                /\ ret' = [ret EXCEPT ![t] = [@ EXCEPT !.status = "throw"]]
                /\ ended' = [ended EXCEPT ![t] = Ended("throw", Top(under))]
                /\ UNCHANGED <<req, devVars>>
           ELSE \* the operation of the controller, up to the publish call of
                \* a transition or to the return of the lambda
                /\ stack' = [stack EXCEPT ![t] =
                                Append(Append(under, call),
                                       CommandFrame("exec", Command(d, ev[1], ev[2], StateBefore(d))))]
                /\ HandleEvent(t, d, ev[1])
                /\ UNCHANGED <<ret, ended, history_, redoStack_>>
        /\ UNCHANGED <<subscribers, nextId_, mutex_, live>>

\* executeAction, lines 148-156: the alert of the rule, and the loop moves on
PublishAlert(t) ==
    LET f == Top(stack[t])
        rule == f.rules[f.idx]
        g == [f EXCEPT !.pc = "guard", !.idx = @ + 1,
                       !.alerts = IF AlertConfigured(rule) THEN Append(@, f.idx) ELSE @]
    IN  /\ Evaluating(t, "alert")
        /\ stack' = [stack EXCEPT ![t] = Append(Pop(stack[t]), g)]
        /\ req' = [req EXCEPT ![t] =
                      IF AlertConfigured(rule)
                      THEN Request("publish", TopicAlert, 0, "-", AlertEventOf(rule))
                      ELSE NoReq]
        /\ UNCHANGED <<subscribers, nextId_, mutex_, ret, ended, live, devVars>>

\* the loop of evaluateRules is over: the callback returns to publish
EvaluateRulesReturn(t) ==
    /\ Evaluating(t, "guard")
    /\ Top(stack[t]).idx > Len(Top(stack[t]).rules)
    /\ ReturnTo(t, Pop(stack[t]), 0)
    /\ UNCHANGED <<subscribers, nextId_, mutex_, req, ended, live, devVars>>

AutomationService(t) ==
    \/ InvokeRules(t)
    \/ EvaluateRule(t)
    \/ PublishAlert(t)
    \/ EvaluateRulesReturn(t)

\* a call that returned the value v
Answered(op, arg, v) == [op |-> op, arg |-> arg, status |-> "ok", value |-> v]

CallGetDeviceState(t, d) ==
    /\ Begin(t)
    /\ ret' = [ret EXCEPT ![t] = Answered("getDeviceState", d, GetDeviceState(d))]
    /\ UNCHANGED <<stack, req, devVars>>

\* ------------------------------------------------------------------ specifications of the devices

\* the callbacks subscribed to TopicDevice before the first device call
Handlers(kinds) == [i \in 1..Len(kinds) |-> Subscriber(i - 1, kinds[i])]

Setups(kinds, max) == UNION {[1..n -> kinds] : n \in 0..max}

DevSetups == {<<>>, <<"log">>, <<"throw">>, <<"log", "throw">>}

\* the state after construction and after the subscriptions of the setup; the
\* contexts of ctxs are constructed
InitWith(kinds, ctxs) ==
    /\ subscribers = IF Len(kinds) = 0 THEN EmptyMap
                     ELSE [x \in {TopicDevice} |-> Handlers(kinds)]
    /\ nextId_ = Len(kinds)
    /\ live = {<<TopicDevice, i - 1>> : i \in 1..Len(kinds)}
    /\ mutex_ = NoThread
    /\ stack = [t \in Threads |-> <<>>]
    /\ req = [t \in Threads |-> NoReq]
    /\ ret = [t \in Threads |-> NoRet]
    /\ ended = [t \in Threads |-> NoEnded]
    /\ currentState_ = [c \in CtxIds |-> IF c \in ctxs THEN InitialState ELSE Absent]
    /\ history_ = <<>>
    /\ redoStack_ = <<>>
    /\ reported = {}
    /\ listening_ = FALSE
    /\ sensorSubId_ = 0
    /\ NoPipeline

\* the publish of a DeviceEvent, carried on
Deliver(t) ==
    \/ Lock(t)
    \/ DoPublish(t)
    \/ Invoke(t)
    \/ PublishReturn(t)

InitCtx == \E kinds \in Setups(CtxKinds, MaxCtxSubs) : InitWith(kinds, {Solo})

NextCtx ==
    \/ CallHandleEvent("main")
    \/ Deliver("main")

SpecCtx == InitCtx /\ [][NextCtx]_vars

\* the invoker carries a command on
Invoker(t) ==
    \/ ExecuteCommandReturn(t)
    \/ UndoLastReturn(t)
    \/ RedoLastReturn(t)

Controller(t, devs, max) ==
    \/ \E d \in devs : RegisterDevice(t, d)
    \/ \E d \in devs : RemoveDevice(t, d)
    \/ \E d \in devs : ActivateDevice(t, d, max)
    \/ \E d \in devs : DeactivateDevice(t, d, max)
    \/ \E d \in devs : TriggerError(t, d, max)
    \/ \E d \in devs : ResetDevice(t, d, max)
    \/ \E d \in devs : StartMaintenance(t, d, max)
    \/ \E d \in devs : CompleteMaintenance(t, d, max)
    \/ UndoLastCommand(t)
    \/ RedoLastCommand(t)

InitHome == \E kinds \in DevSetups : InitWith(kinds, {})

\* the controller with the two devices of main.cpp
NextHome ==
    \/ Controller("main", DeviceIds, MaxHomeHistory)
    \/ Invoker("main")
    \/ Deliver("main")

SpecHome == InitHome /\ [][NextHome]_vars

\* the controller with one device and a longer history
NextDev ==
    \/ Controller("main", {"fan_01"}, MaxHistory)
    \/ Invoker("main")
    \/ Deliver("main")

SpecDev == InitHome /\ [][NextDev]_vars

\* the controller with one device, asked for the state of the device
NextQuery ==
    \/ CallGetDeviceState("main", "fan_01")
    \/ Controller("main", {"fan_01"}, MaxQueryHistory)
    \/ Invoker("main")
    \/ Deliver("main")

SpecQuery == InitHome /\ [][NextQuery]_vars

\* the subscriptions of Application (the two logging callbacks) and of
\* AutomationService::startListening, before the first device is registered
InitAuto ==
    \E rules \in RuleLists :
        /\ subscribers = [x \in {TopicDevice, TopicAlert, TopicSensor} |->
                             CASE x = TopicDevice -> <<Subscriber(0, "log")>>
                               [] x = TopicAlert  -> <<Subscriber(1, "log")>>
                               [] x = TopicSensor -> <<AutomationSubscriber(2, rules)>>]
        /\ nextId_ = 3
        /\ live = {<<TopicDevice, 0>>, <<TopicAlert, 1>>, <<TopicSensor, 2>>}
        /\ mutex_ = NoThread
        /\ stack = [t \in Threads |-> <<>>]
        /\ req = [t \in Threads |-> NoReq]
        /\ ret = [t \in Threads |-> NoRet]
        /\ ended = [t \in Threads |-> NoEnded]
        /\ currentState_ = [c \in CtxIds |-> Absent]
        /\ history_ = <<>>
        /\ redoStack_ = <<>>
        /\ reported = {}
        /\ listening_ = TRUE
        /\ sensorSubId_ = 2
        /\ NoPipeline

\* the operations of the controller that put a device in a state
Operate(t, devs, max) ==
    \/ \E d \in devs : RegisterDevice(t, d)
    \/ \E d \in devs : ActivateDevice(t, d, max)
    \/ \E d \in devs : DeactivateDevice(t, d, max)
    \/ \E d \in devs : TriggerError(t, d, max)
    \/ \E d \in devs : ResetDevice(t, d, max)
    \/ \E d \in devs : StartMaintenance(t, d, max)
    \/ \E d \in devs : CompleteMaintenance(t, d, max)

\* the controller of the two devices and the sensor readings the
\* AutomationService listens to
NextAuto ==
    \/ Operate("main", DeviceIds, MaxAutoHistory)
    \/ ExecuteCommandReturn("main")
    \/ PublishReading("main")
    \/ Deliver("main")
    \/ AutomationService("main")

SpecAuto == InitAuto /\ [][NextAuto]_vars

\* ------------------------------------------------------------------ SensorService

\* sensorTypeToString (SensorTypes.h)
sensorTypeToString(type) ==
    CASE type = "SensorType::Temperature" -> "Temperature"
      [] type = "SensorType::Humidity"    -> "Humidity"
      [] type = "SensorType::Motion"      -> "Motion"
      [] OTHER                            -> "Unknown"

\* the window size of the filter of the service
CycleWindow == 2

\* the limits of the validator of the service: every value of a reading in
\* range, or the lowest one out of range
CycleLimits == {<<Real(0), Real(100)>>, <<Threshold, Real(100)>>}

\* readOnce holds the reading that pipeline_.process has returned for the
\* sensor its loop is at
InHand(t) ==
    /\ ret[t].op = "readOnce"
    /\ ret[t].status = "running"
    /\ handling = NoHandler
    /\ trail # <<>>

\* readOnce, lines 84-87: the loop is at a sensor, sensor->read() gives its
\* reading and pipeline_.process hands it to the head of the chain
Read(t) ==
    \E type \in SensorTypes, value \in SensorValues, valid \in BOOLEAN :
        /\ Idle(t)
        /\ handling = NoHandler
        /\ ~InHand(t)
        /\ Len(history_) <= MaxAutoHistory
        /\ reading' = SensorReading(type, value, valid)
        /\ handling' = head_
        /\ trail' = <<>>
        /\ ret' = [ret EXCEPT ![t] = Running("readOnce", NoTopic)]
        /\ UNCHANGED <<minValid_, maxValid_, filterVars, subscribers, nextId_,
                       mutex_, stack, req, ended, live, currentState_,
                       history_, redoStack_, reported, autoVars>>

\* (mutant) every processed reading is published
PublishableAlways(r) == TRUE

\* readOnce, line 89
Publishable(r) == r.isValid

\* readOnce, lines 89-97: the SensorEvent of the processed reading is
\* published on sensor.reading
PublishProcessed(t) ==
    /\ InHand(t)
    /\ Publishable(reading)
    /\ Enter(t, "publish",
             Request("publish", TopicSensor, 0, "-",
                     SensorEvent(sensorTypeToString(reading.type),
                                 reading.processedValue)))

\* readOnce, lines 98-101: the invalid reading is logged and the loop moves on
SkipInvalid(t) ==
    /\ InHand(t)
    /\ ~Publishable(reading)
    /\ ret' = [ret EXCEPT ![t] = Returned("readOnce", NoTopic)]
    /\ UNCHANGED <<subscribers, nextId_, mutex_, stack, req, ended, live, devVars>>

\* the application as Application::initialize leaves it: the two logging
\* callbacks and the AutomationService subscribed, both devices registered,
\* the default pipeline built and its window empty
InitCycle ==
    \E rules \in RuleLists, limits \in CycleLimits, strategy \in FilterStrategies :
        /\ subscribers = [x \in {TopicDevice, TopicAlert, TopicSensor} |->
                             CASE x = TopicDevice -> <<Subscriber(0, "log")>>
                               [] x = TopicAlert  -> <<Subscriber(1, "log")>>
                               [] x = TopicSensor -> <<AutomationSubscriber(2, rules)>>]
        /\ nextId_ = 3
        /\ live = {<<TopicDevice, 0>>, <<TopicAlert, 1>>, <<TopicSensor, 2>>}
        /\ mutex_ = NoThread
        /\ stack = [t \in Threads |-> <<>>]
        /\ req = [t \in Threads |-> NoReq]
        /\ ret = [t \in Threads |-> NoRet]
        /\ ended = [t \in Threads |-> NoEnded]
        /\ currentState_ = [c \in CtxIds |->
                               IF c \in DeviceIds THEN InitialState ELSE Absent]
        /\ history_ = <<>>
        /\ redoStack_ = <<>>
        /\ reported = {}
        /\ listening_ = TRUE
        /\ sensorSubId_ = 2
        /\ minValid_ = limits[1]
        /\ maxValid_ = limits[2]
        /\ reading = NoReading
        /\ handling = NoHandler
        /\ trail = <<>>
        /\ handlers_ = <<"DataValidator", "DataFilter", "DataTransformer">>
        /\ next_ = Chain(handlers_)
        /\ window_ = <<>>
        /\ windowSize_ = CycleWindow
        /\ strategyType_ = strategy
        /\ customStrategy = NoCustom
        /\ transforms_ = [type \in {"SensorType::Humidity"} |-> "identity"]

\* the read cycles of the sensor thread, and all they set off
NextCycle ==
    \/ Read("worker")
    \/ DataValidator_handle
    \/ DataFilter_handle
    \/ DataTransformer_handle
    \/ PublishProcessed("worker")
    \/ SkipInvalid("worker")
    \/ Deliver("worker")
    \/ AutomationService("worker")
    \/ ExecuteCommandReturn("worker")

SpecCycle == InitCycle /\ [][NextCycle]_vars

\* ------------------------------------------------------------------ two threads at one device

\* DeviceContext and DeviceController hold no mutex and no atomic: a state
\* query that runs while another thread assigns currentState_ is a data race.
\* The query is therefore taken in its two steps, the load of the shared_ptr
\* and the call of getType on the object it points to, and transitionTo in
\* its steps up to the assignment and from it.

\* what a query gives when the state object it loaded was released by the
\* assignment of another thread before getType ran on it
Indeterminate == "indeterminate"

\* a call in flight on a device: transitionTo(state) before its assignment, or
\* getCurrentStateType with the state object it loaded; stale tells that the
\* object was released since
DeviceFrame(kind, c, state) ==
    [kind |-> kind, topic |-> NoTopic, subs |-> <<>>, idx |-> 1,
     start |-> <<>>, invoked |-> <<>>, data |-> NoData, cmd |-> NoCmd,
     dev |-> c, state |-> state, stale |-> FALSE]

InCall(t, kind) ==
    /\ stack[t] # <<>>
    /\ req[t].op = "none"
    /\ Top(stack[t]).kind = kind

\* handleEvent finds a transition and transitionTo runs up to line 20: the
\* name of the old state is read and its exit hook runs
CallTransitionTo(t, c) ==
    \E e \in EventNames :
        /\ Begin(t)
        /\ currentState_[c] # Absent
        /\ Transits(c, e)
        /\ stack' = [stack EXCEPT ![t] =
                        <<DeviceFrame("transitionTo", c,
                                      StateHandleEvent(currentState_[c], e))>>]
        /\ ret' = [ret EXCEPT ![t] = Running("handleEvent", e)]
        /\ UNCHANGED <<req, devVars>>

\* the state objects loaded by other threads, released by the assignment
Released(t, c, stk) ==
    [u \in Threads |->
        IF u = t THEN stk
        ELSE [i \in 1..Len(stack[u]) |->
                 IF stack[u][i].kind = "getCurrentStateType" /\ stack[u][i].dev = c
                 THEN [stack[u][i] EXCEPT !.stale = TRUE]
                 ELSE stack[u][i]]]

\* transitionTo, lines 21-30: currentState_ = std::move(newState) releases
\* the old state object; the enter hook runs and the DeviceEvent is handed to
\* publish
AssignCurrentState(t) ==
    LET f == Top(stack[t])
    IN  /\ InCall(t, "transitionTo")
        /\ TransitionTo(t, f.dev, f.state)
        /\ stack' = Released(t, f.dev, Pop(stack[t]))
        /\ UNCHANGED <<subscribers, nextId_, mutex_, ret, ended, live,
                       history_, redoStack_>>

\* getDeviceState, lines 106-110, and getCurrentStateType up to the load of
\* currentState_
LoadCurrentState(t, d) ==
    /\ Begin(t)
    /\ currentState_[d] # Absent
    /\ stack' = [stack EXCEPT ![t] =
                    <<DeviceFrame("getCurrentStateType", d, currentState_[d])>>]
    /\ ret' = [ret EXCEPT ![t] = Running("getDeviceState", d)]
    /\ UNCHANGED <<req, devVars>>

\* what getType gives on the object loaded: its type, or, once the object
\* was released, whatever the memory then holds
TypeRead(f) ==
    IF f.stale THEN {GetType(f.state), Indeterminate} ELSE {GetType(f.state)}

\* getCurrentStateType: currentState_->getType() on the object loaded
GetTypeOfLoaded(t) ==
    LET f == Top(stack[t])
    IN  /\ InCall(t, "getCurrentStateType")
        /\ \E v \in TypeRead(f) :
               ret' = [ret EXCEPT ![t] = Answered("getDeviceState", f.dev, v)]
        /\ stack' = [stack EXCEPT ![t] = Pop(@)]
        /\ UNCHANGED <<subscribers, nextId_, mutex_, req, ended, live, devVars>>

\* the devices of the two threads
RaceDevices == {"fan_01"}

InitRace == \E kinds \in {<<>>, <<"log">>} : InitWith(kinds, RaceDevices)

\* one thread sends events to the device while the other queries its state
NextRace ==
    \/ \E d \in RaceDevices : CallTransitionTo("main", d)
    \/ AssignCurrentState("main")
    \/ Deliver("main")
    \/ \E d \in RaceDevices : LoadCurrentState("worker", d)
    \/ GetTypeOfLoaded("worker")

SpecRace == InitRace /\ [][NextRace]_vars

\* ------------------------------------------------------------------ two sensors, one pipeline

\* SensorService::readOnce reads every sensor of sensors_ in turn and sends
\* each reading through the one pipeline_ of the service, whose DataFilter
\* holds one window_

\* what sensor A (a temperature sensor) and sensor B (a humidity sensor) read
ValueOf(type) ==
    CASE type = "SensorType::Temperature" -> Real(50)
      [] type = "SensorType::Humidity"    -> Real(56)

Sensors == {"SensorType::Temperature", "SensorType::Humidity"}

\* the handle calls of the readings sent through so far are kept in trail
ReadSensor ==
    \E type \in Sensors, valid \in BOOLEAN :
        /\ handling = NoHandler
        /\ Len(SelectSeq(trail, LAMBDA c : c.handler = "DataValidator")) < MaxReadings
        /\ reading' = SensorReading(type, ValueOf(type), valid)
        /\ handling' = head_
        /\ UNCHANGED <<trail, minValid_, maxValid_, filterVars, homeVars>>

InitShared ==
    \E strategy \in FilterStrategies, size \in 1..MaxWindow :
        /\ minValid_ = Real(0)
        /\ maxValid_ = Real(100)
        /\ reading = NoReading
        /\ handling = NoHandler
        /\ trail = <<>>
        /\ handlers_ = <<"DataValidator", "DataFilter", "DataTransformer">>
        /\ next_ = Chain(handlers_)
        /\ window_ = <<>>
        /\ windowSize_ = size
        /\ strategyType_ = strategy
        /\ customStrategy = NoCustom
        /\ transforms_ = [x \in {} |-> "identity"]
        /\ NoHome

NextShared ==
    \/ ReadSensor
    \/ DataValidator_handle
    \/ DataFilter_handle
    \/ DataTransformer_handle

SpecShared == InitShared /\ [][NextShared]_vars

\* ------------------------------------------------------------------ building a pipeline

\* the handlers a pipeline is built of, each constructed with no next_
DataHandlers == {"DataValidator", "DataFilter", "DataTransformer"}

\* DataPipeline::addHandler of a handler not yet in handlers_
addHandler(h) ==
    /\ handling = NoHandler
    /\ \A i \in 1..Len(handlers_) : handlers_[i] # h
    /\ handlers_' = Append(handlers_, h)
    /\ next_' = Chain(handlers_')
    /\ UNCHANGED <<minValid_, maxValid_, reading, handling, trail, window_,
                   windowSize_, strategyType_, customStrategy, transforms_,
                   homeVars>>

getHandlerName(h) ==
    CASE h = "DataValidator"   -> "DataValidator"
      [] h = "DataFilter"      -> "DataFilter"
      [] h = "DataTransformer" -> "DataTransformer"

\* (mutant) the names are listed last handler first
NamesReversed(handlers) ==
    [i \in 1..Len(handlers) |-> getHandlerName(handlers[Len(handlers) + 1 - i])]

\* DataPipeline::getHandlerNames, lines 79-81
Names(handlers) ==
    [i \in 1..Len(handlers) |-> getHandlerName(handlers[i])]

getHandlerNames(t) ==
    /\ handling = NoHandler
    /\ ret' = [ret EXCEPT ![t] = Answered("getHandlerNames", NoTopic, Names(handlers_))]
    /\ UNCHANGED <<subscribers, nextId_, mutex_, stack, req, ended, live,
                   currentState_, history_, redoStack_, reported, autoVars,
                   pipeVars>>

InitChain ==
    /\ minValid_ = Real(0)
    /\ maxValid_ = Real(100)
    /\ reading = NoReading
    /\ handling = NoHandler
    /\ trail = <<>>
    /\ handlers_ = <<>>
    /\ next_ = [h \in {} |-> NoHandler]
    /\ window_ = <<>>
    /\ windowSize_ = 1
    /\ strategyType_ = "MovingAverage"
    /\ customStrategy = NoCustom
    /\ transforms_ = [type \in {"SensorType::Humidity"} |-> "double"]
    /\ NoHome

NextChain ==
    \/ \E h \in DataHandlers : addHandler(h)
    \/ getHandlerNames("main")
    \/ Process
    \/ DataValidator_handle
    \/ DataFilter_handle
    \/ DataTransformer_handle

SpecChain == InitChain /\ [][NextChain]_vars

\* ------------------------------------------------------------------ startListening and shutdown

\* rules_ of a service that is given no rule
NoRules == <<>>

\* AutomationService::startListening called by the thread's own code, with
\* the subscribe it makes
StartListening(t) ==
    /\ Idle(t)
    /\ mutex_ = NoThread
    /\ ended' = [ended EXCEPT ![t] = NoEnded]
    /\ IF listening_
       THEN /\ ret' = [ret EXCEPT ![t] = Returned("startListening", TopicSensor)]
            /\ UNCHANGED <<subscribers, nextId_, live, autoVars>>
       ELSE /\ nextId_ < 2 + MaxListens
            /\ subscribers' = PushBack(TopicSensor, AutomationSubscriber(nextId_, NoRules))
            /\ nextId_' = nextId_ + 1
            /\ live' = live \cup {<<TopicSensor, nextId_>>}
            /\ sensorSubId_' = nextId_
            /\ listening_' = TRUE
            /\ ret' = [ret EXCEPT ![t] = Returned("startListening", TopicSensor)]
    /\ UNCHANGED <<mutex_, stack, req, currentState_, history_, redoStack_,
                   reported, pipeVars>>

\* (mutant) shutdown forgets to unsubscribe
Unlistened(subs, id) == subs

\* shutdown, lines 90-91: unsubscribe("sensor.reading", sensorSubId_)
Unsubscribed(subs, id) == RemoveId(subs, id)

\* AutomationService::shutdown called by the thread's own code, with the
\* unsubscribe it makes
Shutdown(t) ==
    /\ Idle(t)
    /\ mutex_ = NoThread
    /\ ended' = [ended EXCEPT ![t] = NoEnded]
    /\ ret' = [ret EXCEPT ![t] = Returned("shutdown", TopicSensor)]
    /\ IF listening_
       THEN /\ subscribers' =
                  IF TopicSensor \in DOMAIN subscribers
                  THEN [subscribers EXCEPT
                           ![TopicSensor] = Unsubscribed(@, sensorSubId_)]
                  ELSE subscribers
            /\ live' = live \ {<<TopicSensor, sensorSubId_>>}
            /\ listening_' = FALSE
            /\ UNCHANGED sensorSubId_
       ELSE UNCHANGED <<subscribers, live, autoVars>>
    /\ UNCHANGED <<nextId_, mutex_, stack, req, currentState_, history_,
                   redoStack_, reported, pipeVars>>

\* the subscriptions of Application (the two logging callbacks), the
\* AutomationService constructed
InitListen ==
    /\ subscribers = [x \in {TopicDevice, TopicAlert} |->
                         IF x = TopicDevice THEN <<Subscriber(0, "log")>>
                                            ELSE <<Subscriber(1, "log")>>]
    /\ nextId_ = 2
    /\ live = {<<TopicDevice, 0>>, <<TopicAlert, 1>>}
    /\ mutex_ = NoThread
    /\ stack = [t \in Threads |-> <<>>]
    /\ req = [t \in Threads |-> NoReq]
    /\ ret = [t \in Threads |-> NoRet]
    /\ ended = [t \in Threads |-> NoEnded]
    /\ currentState_ = [c \in CtxIds |-> Absent]
    /\ history_ = <<>>
    /\ redoStack_ = <<>>
    /\ reported = {}
    /\ listening_ = FALSE
    /\ sensorSubId_ = 0
    /\ NoPipeline

\* the service started and shut down, sensor readings published
Listen(t) ==
    \/ StartListening(t)
    \/ Shutdown(t)
    \/ PublishReading(t)
    \/ DoPublish(t)
    \/ InvokeRules(t)
    \/ EvaluateRulesReturn(t)
    \/ PublishReturn(t)

NextListen == Listen("main")

SpecListen == InitListen /\ [][NextListen]_vars

\* other components clear the registry of the bus as well
NextCleared ==
    \/ Listen("main")
    \/ CallClearEvent("main")
    \/ CallClearAll("main")
    \/ DoClearEvent("main")
    \/ DoClearAll("main")

SpecCleared == InitListen /\ [][NextCleared]_vars

\* ------------------------------------------------------------------ removing a device that commands refer to

\* The lambdas of a LambdaCommand capture the DeviceContext by reference
\* ([&ctx], DeviceController.cpp:33-37) and removeDevice destroys the context
\* (devices_.erase, the unique_ptr is its owner) whatever the invoker holds:
\* the commands of the device are left with a reference to a destroyed object.

\* what the ctx of such a command refers to
Dangling == "destroyed DeviceContext"

\* the commands of a list after the context of device d is destroyed
Orphaned(cmds, d) ==
    [i \in 1..Len(cmds) |->
        IF cmds[i].dev = d THEN [cmds[i] EXCEPT !.dev = Dangling] ELSE cmds[i]]

\* DeviceController::removeDevice of any device
EraseDevice(t, d) ==
    /\ Begin(t)
    /\ currentState_' = [currentState_ EXCEPT ![d] = Absent]
    /\ reported' = reported \ {d}
    /\ history_' = Orphaned(history_, d)
    /\ redoStack_' = Orphaned(redoStack_, d)
    /\ ret' = [ret EXCEPT ![t] = Returned("removeDevice", d)]
    /\ UNCHANGED <<stack, req, autoVars, pipeVars>>

\* the process has been terminated inside the call: nothing runs after it
Terminated(cmd) == CommandFrame("terminated", cmd)

\* cmd->undo() or cmd->execute() on a destroyed context is undefined: the
\* call either comes back, no registered device touched, or ends the process
UseDestroyed(t, op, cmd, returns) ==
    IF returns
    THEN /\ ret' = [ret EXCEPT ![t] = Returned(op, NoTopic)]
         /\ UNCHANGED stack
    ELSE /\ ret' = [ret EXCEPT ![t] = Running(op, NoTopic)]
         /\ stack' = [stack EXCEPT ![t] = Append(@, Terminated(cmd))]

\* undoLastCommand when the last command of the history refers to a context
\* that exists
UndoLive(t) ==
    /\ IF history_ = <<>> THEN TRUE ELSE Top(history_).dev # Dangling
    /\ UndoLastCommand(t)

\* undoLast, lines 46-51, when it refers to a destroyed one
UndoDestroyed(t) ==
    \E returns \in BOOLEAN :
        /\ Begin(t)
        /\ history_ # <<>>
        /\ Top(history_).dev = Dangling
        /\ history_' = Pop(history_)
        /\ redoStack_' = IF returns THEN Push(redoStack_, Top(history_)) ELSE redoStack_
        /\ UseDestroyed(t, "undoLastCommand", Top(history_), returns)
        /\ UNCHANGED <<req, currentState_, reported, autoVars, pipeVars>>

RedoLive(t) ==
    /\ IF redoStack_ = <<>> THEN TRUE ELSE Top(redoStack_).dev # Dangling
    /\ RedoLastCommand(t)

\* redoLast, lines 59-64, when the command refers to a destroyed context
RedoDestroyed(t) ==
    \E returns \in BOOLEAN :
        /\ Begin(t)
        /\ redoStack_ # <<>>
        /\ Top(redoStack_).dev = Dangling
        /\ redoStack_' = Pop(redoStack_)
        /\ history_' = IF returns THEN Append(history_, Top(redoStack_)) ELSE history_
        /\ UseDestroyed(t, "redoLastCommand", Top(redoStack_), returns)
        /\ UNCHANGED <<req, currentState_, reported, autoVars, pipeVars>>

NextRemoval ==
    \/ Operate("main", {"fan_01"}, MaxHomeHistory)
    \/ EraseDevice("main", "fan_01")
    \/ UndoLive("main")
    \/ UndoDestroyed("main")
    \/ RedoLive("main")
    \/ RedoDestroyed("main")
    \/ Invoker("main")
    \/ Deliver("main")

SpecRemoval == InitHome /\ [][NextRemoval]_vars

\* ------------------------------------------------------------------ the DataFilter reconfigured

\* the values of the readings given to the filter
FilterSamples == {Real(50), Real(56)}

\* (mutant) the window is left as it is
Untrimmed(window, size) == window

\* setWindowSize, lines 40-42: pop_front while the window is over the size
Trimmed(window, size) ==
    IF Len(window) <= size THEN window
    ELSE SubSeq(window, Len(window) - size + 1, Len(window))

\* DataFilter::setWindowSize
setWindowSize(size) ==
    /\ handling = NoHandler
    /\ windowSize_' = size
    /\ window_' = Trimmed(window_, size)
    /\ UNCHANGED <<minValid_, maxValid_, reading, handling, trail, handlers_,
                   next_, strategyType_, customStrategy, transforms_, homeVars>>

\* DataFilter::setStrategy
setStrategy(strategy) ==
    /\ handling = NoHandler
    /\ strategyType_' = strategy
    /\ customStrategy' = NoCustom
    /\ UNCHANGED <<minValid_, maxValid_, reading, handling, trail, handlers_,
                   next_, window_, windowSize_, transforms_, homeVars>>

\* DataFilter::setCustomStrategy
setCustomStrategy(func) ==
    /\ handling = NoHandler
    /\ customStrategy' = func
    /\ UNCHANGED <<minValid_, maxValid_, reading, handling, trail, handlers_,
                   next_, window_, windowSize_, strategyType_, transforms_,
                   homeVars>>

\* handle of the filter called with a reading; the exploration stops feeding
\* a window that has outgrown MaxWindow
HandleReading ==
    \E value \in FilterSamples, valid \in BOOLEAN :
        /\ handling = NoHandler
        /\ Len(window_) <= MaxWindow
        /\ reading' = SensorReading(SensorType, value, valid)
        /\ handling' = "DataFilter"
        /\ trail' = <<>>
        /\ UNCHANGED <<minValid_, maxValid_, filterVars, homeVars>>

\* DataFilter(strategy, windowSize), the next_ it is constructed with
InitFilter ==
    \E strategy \in FilterStrategies, size \in 0..MaxWindow :
        /\ minValid_ = Real(0)
        /\ maxValid_ = Real(100)
        /\ reading = NoReading
        /\ handling = NoHandler
        /\ trail = <<>>
        /\ handlers_ = <<>>
        /\ next_ = [h \in {"DataFilter"} |-> NoHandler]
        /\ window_ = <<>>
        /\ windowSize_ = size
        /\ strategyType_ = strategy
        /\ customStrategy = NoCustom
        /\ transforms_ = [type \in {} |-> "identity"]
        /\ NoHome

NextFilter ==
    \/ \E size \in 0..MaxWindow : setWindowSize(size)
    \/ \E strategy \in FilterStrategies : setStrategy(strategy)
    \/ \E func \in CustomStrategies : setCustomStrategy(func)
    \/ HandleReading
    \/ DataFilter_handle

SpecFilter == InitFilter /\ [][NextFilter]_vars

\* ------------------------------------------------------------------ two devices, one history

\* the two devices of main.cpp registered, their operations, undo and redo
InitBoth == \E kinds \in {<<>>, <<"log">>} : InitWith(kinds, DeviceIds)

NextBoth ==
    \/ Operate("main", DeviceIds, MaxHistory)
    \/ UndoLastCommand("main")
    \/ RedoLastCommand("main")
    \/ Invoker("main")
    \/ Deliver("main")

SpecBoth == InitBoth /\ [][NextBoth]_vars

\* ------------------------------------------------------------------ properties of the bus

FramesOf(t) == {stack[t][i] : i \in 1..Len(stack[t])}

LiveIds(topic) == {e[2] : e \in {x \in live : x[1] = topic}}

Increasing(ids) == \A i, j \in 1..Len(ids) : i < j => ids[i] < ids[j]

\* C1: a publish call invokes every handler that was registered for the topic
\* when the call took the list, once each and in subscription order, before it
\* ends, whatever the handlers do.
C1_PublishInvokesEveryHandler ==
    \A t \in Threads : ended[t].by # "none" => ended[t].all

\* C2: the handlers a publish call invokes are those of the list it copied, in
\* that order: whatever subscribe, unsubscribe, clearEvent or clearAll does to
\* the registry while the call is in flight, the handlers invoked so far are a
\* prefix of the copied list, and the call returns only when it has invoked
\* all of it.
C2_FanOutFixedAtSnapshot ==
    \A t \in Threads :
        /\ \A f \in FramesOf(t) :
              /\ IsPrefix(f.invoked, Ids(f.start))
              /\ Len(f.invoked) \in {f.idx - 1, f.idx}
        /\ ended[t].by = "return" => ended[t].all

\* a publish has invoked its second handler although that handler was taken
\* out of the registry after the call copied the list
C2_Witness ==
    \E t \in Threads : \E f \in FramesOf(t) :
        /\ Len(f.invoked) >= 2
        /\ f.invoked[2] \notin IdSet(Registered(f.topic))

\* C3: a thread that is between two handlers of its publish does not hold the
\* registry mutex, and a thread that is inside a call can always take its
\* next step, or waits for the mutex while the thread holding it can take its
\* next step: no state is a deadlock.
C3_NoLockWhileHandlersRun ==
    \A t \in Threads :
        /\ Dispatching(t) => mutex_ # t
        /\ ~Idle(t) =>
              \/ ENABLED Progress(t)
              \/ mutex_ \in Threads \ {t} /\ ENABLED Progress(mutex_)

\* a callback running inside a publish holds the mutex for its own clearAll
\* while the other thread has a publish in flight too
C3_Witness ==
    \E t \in Threads :
        /\ stack[t] # <<>>
        /\ mutex_ = t
        /\ req[t].op = "clearAll"
        /\ \E u \in Threads \ {t} : stack[u] # <<>>

\* C4: the registry of a topic holds exactly the ids subscribed to it and not
\* unsubscribed or cleared since, in the order of their subscription (ids are
\* issued in increasing order); subscriberCount returns their number, and a
\* publish invokes none but them.
C4_UnsubscribeRemovesExactlyOne ==
    /\ \A topic \in BusTopics :
          /\ IdSet(Registered(topic)) = LiveIds(topic)
          /\ Len(Registered(topic)) = Cardinality(LiveIds(topic))
          /\ Increasing(Ids(Registered(topic)))
    /\ (ret["main"].op = "count" /\ ret["main"].status = "ok")
          => ret["main"].value = Cardinality(LiveIds(ret["main"].arg))
    /\ \A f \in FramesOf("main") :
          /\ IdSet(f.subs) \subseteq LiveIds(f.topic)
          /\ \A i \in 1..Len(f.invoked) : f.invoked[i] \in LiveIds(f.topic)

\* three subscribes on one topic, the second id unsubscribed, and
\* subscriberCount has returned 2
C4_Witness ==
    /\ nextId_ = 3
    /\ LiveIds(TopicSensor) = {0, 2}
    /\ Ids(Registered(TopicSensor)) = <<0, 2>>
    /\ ret["main"] = [op |-> "count", arg |-> TopicSensor, status |-> "ok", value |-> 2]

\* C5: the critical section of an unsubscribe whose id is not in the list of
\* its topic, and that of a publish on a topic without subscribers, leave the
\* list of every topic as it was, and a publish that found no subscriber
\* invokes no handler.
C5_NoOpsChangeNothing ==
    [][\A t \in Threads :
          /\ ( /\ mutex_ = t
               /\ req'[t].op = "none"
               /\ \/ req[t].op = "unsubscribe"
                        /\ req[t].id \notin IdSet(Registered(req[t].topic))
                  \/ req[t].op = "publish" /\ Registered(req[t].topic) = <<>> )
             => /\ \A x \in BusTopics : Registered(x)' = Registered(x)
                /\ live' = live
          /\ \A i \in 1..Len(stack'[t]) :
                stack'[t][i].start = <<>> => stack'[t][i].invoked = <<>>
      ]_vars

\* an unsubscribe that erased nothing although handlers are registered, and a
\* publish that returned having found no subscriber
C5_Witness ==
    /\ ret["main"].op = "unsubscribe"
    /\ ret["main"].status = "ok"
    /\ ret["main"].value = 0
    /\ live # {}
    /\ ended["worker"] = [by |-> "return", n |-> 0, all |-> TRUE]

\* ------------------------------------------------------------------ properties of the state machine

\* the subscriber the innermost publish of the thread is about to invoke
NextSubscriber(t) == FanOut(Top(stack[t]))[Top(stack[t]).idx]

\* the thread is about to invoke a subscriber of device.state_changed
AboutToNotify(t) ==
    /\ Dispatching(t)
    /\ Top(stack[t]).topic = TopicDevice
    /\ Top(stack[t]).idx <= Len(FanOut(Top(stack[t])))

\* the step is a callback of kind react being invoked
ReactStep(t) ==
    /\ AboutToNotify(t)
    /\ NextSubscriber(t).kind = "react"
    /\ stack'[t] # stack[t]

\* the step is the owner of the standalone context calling handleEvent(e)
OwnerSends(t, e) ==
    /\ Idle(t)
    /\ ret'[t].op = "handleEvent"
    /\ ret'[t].arg = e

\* C6: handleEvent(e) on a context in state s moves it to the state the
\* transition table gives for (s, e), and leaves getCurrentStateType()
\* unchanged for every pair that is not in the table, unknown event names
\* included; the state changes in no other step.
C6_HandleEventFollowsTable ==
    [][LET I == "DeviceStateType::Idle"
           A == "DeviceStateType::Active"
           E == "DeviceStateType::Error"
           M == "DeviceStateType::Maintenance"
           Table(st, e) ==
               CASE st = I /\ e = "activate"    -> A
                 [] st = I /\ e = "maintenance" -> M
                 [] st = A /\ e = "deactivate"  -> I
                 [] st = A /\ e = "error"       -> E
                 [] st = A /\ e = "maintenance" -> M
                 [] st = E /\ e = "reset"       -> I
                 [] st = E /\ e = "maintenance" -> M
                 [] st = M /\ e = "done"        -> I
                 [] OTHER                       -> st
           Sent(e) == \/ OwnerSends("main", e)
                      \/ ReactStep("main") /\ e = ReactEvent
       IN  /\ \A e \in EventNames :
                Sent(e) => GetCurrentStateType(Solo)'
                              = Table(GetCurrentStateType(Solo), e)
           /\ (\A e \in EventNames : ~Sent(e))
                => GetCurrentStateType(Solo)' = GetCurrentStateType(Solo)
      ]_vars

\* handleEvent("toggle") has returned on a context in the Error state, which
\* it left as it was
C6_Witness ==
    /\ ret["main"] = Returned("handleEvent", "toggle")
    /\ currentState_[Solo] = "ErrorState"
    /\ Solo \in reported

\* the step takes context c from one state to another
Transition(c) ==
    /\ currentState_[c] # Absent
    /\ currentState_'[c] # Absent
    /\ currentState_'[c] # currentState_[c]

\* the step hands a DeviceEvent to EventBus::publish
Publishes(t) ==
    /\ req'[t] # req[t]
    /\ req'[t].op = "publish"
    /\ req'[t].topic = TopicDevice

\* C7: a step in which a device goes from one state to another hands exactly
\* one DeviceEvent to publish, with the id of the device, the name of the
\* state before and the name of the state after; a step in which no device
\* changes state (an ignored event among them) hands none; and a DeviceEvent
\* handed to publish is published once, by the critical section of publish.
C7_OneEventPerTransition ==
    [][/\ \A c \in CtxIds :
             Transition(c) =>
                 /\ Publishes("main")
                 /\ req'["main"].data.deviceId = c
                 /\ req'["main"].data.previousState
                        = StateToString(GetCurrentStateType(c))
                 /\ req'["main"].data.newState
                        = StateToString(GetCurrentStateType(c)')
                 /\ \A x \in CtxIds \ {c} : currentState_'[x] = currentState_[x]
       /\ \A t \in Threads :
             Publishes(t) => req[t].op = "none" /\ Transition(req'[t].data.deviceId)
       /\ \A t \in Threads :
             (req[t].op = "publish" /\ req'[t] # req[t]) =>
                 /\ mutex_ = t
                 /\ req'[t].op = "none"
                 /\ \/ Registered(TopicDevice) = <<>> /\ stack'[t] = stack[t]
                    \/ /\ Len(stack'[t]) = Len(stack[t]) + 1
                       /\ Top(stack'[t]).data = req[t].data
                       /\ Top(stack'[t]).subs = Registered(TopicDevice)
      ]_vars

\* the event Active -> Error of alarm_01 is about to be published while
\* fan_01 is registered too
C7_Witness ==
    /\ req["main"].op = "publish"
    /\ req["main"].data.deviceId = "alarm_01"
    /\ req["main"].data.previousState = "Active"
    /\ req["main"].data.newState = "Error"
    /\ currentState_["alarm_01"] = "ErrorState"
    /\ currentState_["fan_01"] # Absent

\* the step is a call of registerDevice
Registering(t) == Idle(t) /\ ret'[t].op = "registerDevice"

\* registering publishes no DeviceEvent, and the first DeviceEvent of a
\* device names Idle as its previous state
RegisteringIsSilent ==
    /\ Registering("main") => req' = req /\ stack' = stack
    /\ \A d \in DeviceIds :
          (d \notin reported /\ d \in reported') =>
              /\ Publishes("main")
              /\ req'["main"].data.deviceId = d
              /\ req'["main"].data.previousState = "Idle"
    /\ \A t \in Threads :
          Publishes(t) => req'[t].data.deviceId \in reported'

\* C9 (as stated): a device is in state Idle when a registerDevice call for
\* it has just returned; registering publishes no DeviceEvent; the first
\* DeviceEvent of a device has previousState = Idle.
C9_IdleAfterEveryRegisterDevice ==
    /\ [](ret["main"].op = "registerDevice"
            => GetCurrentStateType(ret["main"].arg) = "DeviceStateType::Idle")
    /\ [][RegisteringIsSilent]_vars

\* C9 (amended): a device is in state Idle when a registerDevice call that
\* found its id not registered has just returned, and a registerDevice call
\* for an id already registered leaves the device in the state it has;
\* registering publishes no DeviceEvent; the first DeviceEvent of a device
\* has previousState = Idle.
C9_IdleAfterFirstRegisterDevice ==
    [][/\ \A d \in DeviceIds :
             (Registering("main") /\ ret'["main"].arg = d) =>
                 IF currentState_[d] = Absent
                 THEN GetCurrentStateType(d)' = "DeviceStateType::Idle"
                 ELSE currentState_'[d] = currentState_[d]
       /\ RegisteringIsSilent
      ]_vars

\* fan_01 has just been registered and has published no event, while
\* alarm_01 has published some and is in the Error state
C9_Witness ==
    /\ ret["main"] = Returned("registerDevice", "fan_01")
    /\ currentState_["fan_01"] = "IdleState"
    /\ "fan_01" \notin reported
    /\ currentState_["alarm_01"] = "ErrorState"
    /\ "alarm_01" \in reported

\* the step is executeCommand pushing its command: cmd->execute() is called
ExecuteStarts(t) ==
    /\ Len(stack'[t]) = Len(stack[t]) + 1
    /\ Top(stack'[t]).kind = "exec"

\* the step is executeCommand returning
ExecuteReturns(t) ==
    /\ stack[t] # <<>>
    /\ Top(stack[t]).kind = "exec"
    /\ stack'[t] = Pop(stack[t])

EventsInFlight(t) ==
    {f.data : f \in {g \in FramesOf(t) : g.topic = TopicDevice}}
        \cup (IF req[t].op = "publish" /\ req[t].topic = TopicDevice
              THEN {req[t].data} ELSE {})

\* exit was called on the state the event names as previous, then enter on
\* the state it names as new, then the event was handed to publish
HooksInOrder(ev) ==
    /\ Len(ev.hooks) = 2
    /\ ev.hooks[1][1] = "exit"
    /\ GetName(ev.hooks[1][2]) = ev.previousState
    /\ ev.hooks[2][1] = "enter"
    /\ GetName(ev.hooks[2][2]) = ev.newState

\* the subscriber about to be invoked would find the state query equal to
\* the newState of the event it is given
SeesNewState(t) ==
    StateToString(GetCurrentStateType(Top(stack[t]).data.deviceId))
        = Top(stack[t]).data.newState

\* C8 (as stated): exit, swap, enter, publish happen in this order, and
\* whenever a subscriber of device.state_changed is invoked the state query
\* of the device equals the newState of the event it receives.
C8_EverySubscriberSeesNewState ==
    \A t \in Threads :
        /\ \A ev \in EventsInFlight(t) : HooksInOrder(ev)
        /\ AboutToNotify(t) => SeesNewState(t)

\* C8 (amended): exit, swap, enter, publish happen in this order, and a
\* subscriber of device.state_changed finds the state query of the device
\* equal to the newState of the event it receives whenever no subscriber
\* invoked before it for the same event has sent the device an event.
C8_SubscriberSeesNewStateUnlessReacted ==
    \A t \in Threads :
        /\ \A ev \in EventsInFlight(t) : HooksInOrder(ev)
        /\ ( /\ AboutToNotify(t)
             /\ \A j \in 1..(Top(stack[t]).idx - 1) :
                    FanOut(Top(stack[t]))[j].kind # "react" )
              => SeesNewState(t)

\* the second subscriber of the event Idle -> Active is about to be invoked
\* after a first one that only logged, and it will send the device an event
C8_Witness ==
    /\ AboutToNotify("main")
    /\ Top(stack["main"]).idx = 2
    /\ FanOut(Top(stack["main"]))[1].kind = "log"
    /\ NextSubscriber("main").kind = "react"
    /\ Top(stack["main"]).data.previousState = "Idle"
    /\ Top(stack["main"]).data.newState = "Active"
    /\ currentState_[Solo] = "ActiveState"

\* ------------------------------------------------------------------ properties of the invoker

\* C11: undoLast called with an empty history and redoLast called with an
\* empty redo stack return without an error, send no event to any device
\* (no command is put in flight, nothing is handed to publish) and leave the
\* history, the redo stack and the state of every device as they were.
C11_EmptyUndoRedoAreNoOps ==
    [][/\ (Idle("main") /\ history_ = <<>>
              /\ ret'["main"].op = "undoLastCommand") =>
               /\ UNCHANGED <<devVars, stack, req>>
               /\ ret'["main"].status = "ok"
       /\ (Idle("main") /\ redoStack_ = <<>>
              /\ ret'["main"].op = "redoLastCommand") =>
               /\ UNCHANGED <<devVars, stack, req>>
               /\ ret'["main"].status = "ok"
      ]_vars

\* undoLast has returned with the history and the redo stack both empty (an
\* undo that moved a command would have left it on the redo stack), and the
\* device is still Active
C11_Witness ==
    /\ ret["main"] = Returned("undoLastCommand", NoTopic)
    /\ history_ = <<>>
    /\ redoStack_ = <<>>
    /\ currentState_["fan_01"] = "ActiveState"

\* the step is undoLast returning
UndoReturns(t) ==
    /\ stack[t] # <<>>
    /\ Top(stack[t]).kind = "undo"
    /\ stack'[t] = Pop(stack[t])

\* the step is redoLast returning
RedoReturns(t) ==
    /\ stack[t] # <<>>
    /\ Top(stack[t]).kind = "redo"
    /\ stack'[t] = Pop(stack[t])

\* the state a device in state st has after the event e
After(st, e) ==
    IF StateHandleEvent(st, e) = NoTransition THEN st ELSE StateHandleEvent(st, e)

\* C12, for the first of the N operations: when the undo that empties the
\* history returns, the device of the undone command, which was executed on
\* an empty history, is in the state it had before that command; and when
\* the redo of that command returns, its device is in the state the command
\* left it in when it was executed.
C12_UndoAllRestoresRedoAllRepeats ==
    [][/\ (UndoReturns("main") /\ history_ = <<>>
              /\ Top(stack["main"]).cmd.was # NotKept) =>
               currentState_'[Top(stack["main"]).cmd.dev]
                   = Top(stack["main"]).cmd.was
       /\ (RedoReturns("main") /\ Top(stack["main"]).cmd.was # NotKept) =>
               currentState_'[Top(stack["main"]).cmd.dev]
                   = After(Top(stack["main"]).cmd.was, Top(stack["main"]).cmd.fwd)
      ]_vars

\* C13: the number of commands held in the history never exceeds a fixed
\* limit.  executeCommand has no limit of its own, the history is only kept
\* from growing by the bound MaxHistory of the exploration; a limit of the
\* program would keep the history below that bound.
C13_HistoryBounded == Len(history_) < MaxHistory

\* ------------------------------------------------------------------ properties of the controller

DeviceOps == {"activateDevice", "deactivateDevice", "triggerError",
              "resetDevice", "startMaintenance", "completeMaintenance"}

\* the step is the call of one of the six operations with an id that is not
\* registered
CallsUnregistered(t) ==
    /\ Idle(t)
    /\ ret'[t].op \in DeviceOps
    /\ ret'[t].arg \in CtxIds
    /\ currentState_[ret'[t].arg] = Absent

\* C14: each of the six operations called with an id that is not registered
\* ends with an exception to its caller, and the call appends no command,
\* leaves the redo stack uncleared, changes no device state, puts no command
\* in flight and hands no DeviceEvent to publish.
C14_UnregisteredIdThrowsAndChangesNothing ==
    [][CallsUnregistered("main") =>
           /\ ret'["main"].status = "throw"
           /\ UNCHANGED <<devVars, stack, req, subscribers>>
      ]_vars

\* activateDevice of alarm_01, not registered, has thrown while the redo stack
\* holds the undone command of fan_01
C14_Witness ==
    /\ ret["main"] = Thrown("activateDevice", "alarm_01")
    /\ currentState_["alarm_01"] = Absent
    /\ Len(redoStack_) = 1
    /\ currentState_["fan_01"] # Absent

\* C15: getDeviceState called with an id that is not registered (never
\* registered, or removed) ends with a failure signalled to its caller; it
\* never answers with a state value.
C15_StateQueryOfUnknownIdFails ==
    [][(/\ Idle("main")
        /\ ret'["main"].op = "getDeviceState"
        /\ currentState_[ret'["main"].arg] = Absent)
           => ret'["main"].status = "throw"
      ]_vars

\* ------------------------------------------------------------------ properties of the automation

\* the evaluateRules call on top of the stack of the main thread
Eval == Top(stack["main"])

\* the rule its loop is at
EvalRule == Eval.rules[Eval.idx]

\* the sensor type of the event is the one of the rule and the value is on
\* the triggering side of the threshold
Hot(rule, event) ==
    /\ event.sensorType \in {"Temperature", "Humidity", "Motion"}
    /\ rule.sensorType = "SensorType::" \o event.sensorType
    /\ \/ rule.triggerAbove /\ event.value > rule.threshold
       \/ ~rule.triggerAbove /\ event.value < rule.threshold

\* the step hands a command to the controller, which executes it
ExecutesCommand(t) ==
    /\ stack'[t] # <<>>
    /\ Top(stack'[t]).kind = "exec"
    /\ Len(stack'[t]) = Len(stack[t]) + 1

\* the service has the one rule of C16
SingleActivateRule ==
    /\ Len(Eval.rules) = 1
    /\ Eval.rules[1].triggerAbove
    /\ Eval.rules[1].action = "activate"
    /\ Eval.rules[1].alertSeverity > 0

\* C16: with the single rule {T, h, above, activate, d, severity > 0}: the
\* turn of the loop for an event of type T with value > h, taken with d
\* registered and Idle, executes the activate command and leaves d Active,
\* and the call then hands exactly one AlertEvent to publish before it
\* returns, with d still Active; the turn taken with d Active executes no
\* command, changes neither the history nor any device, hands nothing to
\* publish, and the call returns without an AlertEvent.
C16_SingleRuleFiresOnce ==
    [][(Evaluating("main", "guard") /\ SingleActivateRule) =>
         /\ (/\ Eval.idx = 1
             /\ Hot(EvalRule, Eval.data)
             /\ currentState_[EvalRule.targetDeviceId] = "IdleState") =>
                 /\ ExecutesCommand("main")
                 /\ currentState_'[EvalRule.targetDeviceId] = "ActiveState"
                 /\ stack'["main"][Len(stack["main"])].cmds = <<1>>
         /\ (/\ Eval.idx = 1
             /\ Hot(EvalRule, Eval.data)
             /\ currentState_[EvalRule.targetDeviceId] = "ActiveState") =>
                 /\ UNCHANGED <<devVars, req>>
                 /\ Top(stack'["main"]).kind = AutomationKind
                 /\ Top(stack'["main"]).idx = 2
                 /\ Top(stack'["main"]).cmds = <<>>
         /\ Eval.idx = 2 =>
                 /\ Eval.alerts = Eval.cmds
                 /\ Eval.cmds = <<1>> =>
                        currentState_[Eval.rules[1].targetDeviceId] = "ActiveState"
      ]_vars

\* the call for a reading of 31 degrees has activated the fan and handed the
\* one alert to publish, and is about to return
C16_Witness ==
    /\ Evaluating("main", "guard")
    /\ SingleActivateRule
    /\ Eval.idx = 2
    /\ Eval.data = SensorEvent("Temperature", Real(31))
    /\ Eval.cmds = <<1>>
    /\ Eval.alerts = <<1>>
    /\ currentState_["fan_01"] = "ActiveState"
    /\ history_ = <<Command("fan_01", "activate", "deactivate", "IdleState")>>

\* the positions in rules_ of the rules whose sensor type is the one of the
\* event, in registration order
Matching(rules, event) ==
    LET Match(i) == rules[i].sensorType = "SensorType::" \o event.sensorType
    IN  SelectSeq([i \in 1..Len(rules) |-> i], Match)

\* the step ends the evaluateRules call on top of the stack, by its return
\* or by an exception
EvaluateRulesEnds(t) ==
    /\ stack[t] # <<>>
    /\ Top(stack[t]).kind = AutomationKind
    /\ Len(stack'[t]) < Len(stack[t])

\* the rules the call has compared with the event when the step is over
SeenAtEnd ==
    IF Eval.idx <= Len(Eval.rules) THEN Append(Eval.seen, Eval.idx) ELSE Eval.seen

\* C17: when an evaluateRules call ends, every rule whose sensor type is the
\* one of the event has been evaluated, in registration order, whatever the
\* earlier rules did, an earlier rule whose target is not registered
\* included.
C17_EveryMatchingRuleEvaluated ==
    [][EvaluateRulesEnds("main") => SeenAtEnd = Matching(Eval.rules, Eval.data)]_vars

\* the target of the rule is registered and in the state the action of the
\* rule starts from: Idle for activate, Active for deactivate
GuardHolds(rule) ==
    \/ /\ rule.action = "activate"
       /\ currentState_[rule.targetDeviceId] = "IdleState"
    \/ /\ rule.action = "deactivate"
       /\ currentState_[rule.targetDeviceId] = "ActiveState"

\* the step hands an AlertEvent to publish
PublishesAlert(t) ==
    /\ req'[t].op = "publish"
    /\ req'[t].topic = TopicAlert
    /\ req[t].op = "none"

\* C18: a turn of the loop of evaluateRules executes a command only when the
\* comparison of the rule is true and its guard holds; in every other case
\* (target in Error or Maintenance, already in the triggered state, an
\* action that is neither activate nor deactivate) the turn executes no
\* command, changes no device and no history and hands nothing to publish,
\* and no alert follows it.  An AlertEvent is handed to publish only for a
\* rule whose command was executed in this call, and only if its
\* alertSeverity is > 0; then it carries the name and the severity of the
\* rule.
C18_CommandAndAlertOnlyWhenGuardHolds ==
    [][/\ (Evaluating("main", "guard") /\ Eval.idx <= Len(Eval.rules)) =>
            IF Hot(EvalRule, Eval.data) /\ GuardHolds(EvalRule)
            THEN /\ ExecutesCommand("main")
                 /\ Top(stack'["main"]).cmd.dev = EvalRule.targetDeviceId
                 /\ Top(stack'["main"]).cmd.fwd = EvalRule.action
            ELSE /\ ~ExecutesCommand("main")
                 /\ UNCHANGED <<devVars, req>>
                 /\ \/ stack'["main"] = <<>>
                    \/ /\ Top(stack'["main"]).kind = AutomationKind
                       /\ Top(stack'["main"]).pc = "guard"
                       /\ Top(stack'["main"]).idx = Eval.idx + 1
                       /\ Top(stack'["main"]).alerts = Eval.alerts
                       /\ Top(stack'["main"]).cmds = Eval.cmds
       /\ Evaluating("main", "alert") =>
            /\ PublishesAlert("main") <=> EvalRule.alertSeverity > 0
            /\ PublishesAlert("main") =>
                   /\ req'["main"].data.source = EvalRule.name
                   /\ req'["main"].data.severity = EvalRule.alertSeverity
            /\ Eval.cmds # <<>>
            /\ Top(Eval.cmds) = Eval.idx
       /\ PublishesAlert("main") => Evaluating("main", "alert")
      ]_vars

\* both rules of a call have executed their command, the fan and the alarm
\* are Active, and only the first rule, the one with a severity, has
\* published an alert
C18_Witness ==
    /\ Evaluating("main", "guard")
    /\ Eval.idx = 3
    /\ Eval.rules[2].alertSeverity = 0
    /\ Eval.cmds = <<1, 2>>
    /\ Eval.alerts = <<1>>
    /\ currentState_["fan_01"] = "ActiveState"
    /\ currentState_["alarm_01"] = "ActiveState"

\* publish is about to invoke the callback of the AutomationService with an
\* event whose type name is none of Temperature, Humidity, Motion
UnknownTypeDelivered(t) ==
    /\ Dispatching(t)
    /\ Top(stack[t]).topic = TopicSensor
    /\ Top(stack[t]).idx <= Len(FanOut(Top(stack[t])))
    /\ NextSubscriber(t).kind = AutomationKind
    /\ Top(stack[t]).data.sensorType \notin {"Temperature", "Humidity", "Motion"}

\* C19: a SensorEvent whose type name is none of Temperature, Humidity and
\* Motion is dropped by the AutomationService: its callback returns to
\* publish, which moves on to its next subscriber, without an evaluateRules
\* loop, a command, an alert or any other bus call, a change of a device or
\* of the history, or an exception.
C19_UnknownSensorTypeDropped ==
    [][UnknownTypeDelivered("main") =>
           /\ UNCHANGED <<devVars, req, ret, subscribers>>
           /\ Len(stack'["main"]) = Len(stack["main"])
           /\ Top(stack'["main"]).kind = "publish"
           /\ Top(stack'["main"]).idx = Top(stack["main"]).idx + 1
      ]_vars

\* the callback of the service has returned from an Unknown reading of 31
\* while the fan its Temperature rule would activate is registered and Idle
C19_Witness ==
    /\ Dispatching("main")
    /\ Top(stack["main"]).topic = TopicSensor
    /\ Top(stack["main"]).data = SensorEvent("Unknown", Real(31))
    /\ Top(stack["main"]).idx = 2
    /\ Top(stack["main"]).invoked = <<2>>
    /\ currentState_["fan_01"] = "IdleState"
    /\ history_ = <<>>

\* ------------------------------------------------------------------ properties of the pipeline

\* C20: a reading that enters the DataValidator with isValid = true and
\* minValid_ <= processedValue <= maxValid_ leaves it with isValid = true
\* and the same processedValue, and is handed to the next handler, whose
\* handle is then called with exactly that reading.
C20_InRangeReadingPassesUnchanged ==
    [][/\ (/\ handling = "DataValidator"
           /\ reading.isValid
           /\ minValid_ <= reading.processedValue
           /\ reading.processedValue <= maxValid_) =>
               /\ reading' = reading
               /\ handling' = NextHandler
       /\ (handling = NextHandler /\ trail[1].reading.isValid
              /\ minValid_ <= trail[1].reading.processedValue
              /\ trail[1].reading.processedValue <= maxValid_) =>
               trail' = <<trail[1], Called(NextHandler, trail[1].reading)>>
      ]_vars

\* a valid reading whose value is the upper limit itself has gone through
\* the DataValidator and the next handler
C20_Witness ==
    /\ handling = NoHandler
    /\ minValid_ < maxValid_
    /\ reading = SensorReading(SensorType, maxValid_, TRUE)
    /\ trail = <<Called("DataValidator", reading), Called(NextHandler, reading)>>

\* the reading as it entered the pipeline, while it is being handled
Input == IF trail = <<>> THEN reading ELSE trail[1].reading

\* process returns: the last handle of the chain has run
ProcessReturns == handling # NoHandler /\ handling' = NoHandler

\* C21: a reading whose value is outside [minValid_, maxValid_] comes back from
\* the chain DataValidator -> DataFilter -> DataTransformer with isValid = false
\* and the value it came with, and no step of its processing changes the
\* window of the filter (no handle of the chain has a failing exit).
C21_OutOfRangeReadingComesBackInvalidAndUntouched ==
    [][(/\ handling # NoHandler
        /\ OutOfRange(Input.processedValue, minValid_, maxValid_)) =>
            /\ window_' = window_
            /\ ProcessReturns => reading' = [Input EXCEPT !.isValid = FALSE]]_vars

\* an out-of-range reading that entered valid has come back from the
\* transformer, past a moving average with a window in use and a doubling
\* transform
C21_Witness ==
    /\ handling = NoHandler
    /\ Len(trail) = 3
    /\ trail[3].handler = "DataTransformer"
    /\ trail[1].reading.isValid
    /\ OutOfRange(trail[1].reading.processedValue, minValid_, maxValid_)
    /\ reading = [trail[1].reading EXCEPT !.isValid = FALSE]
    /\ strategyType_ = "MovingAverage"
    /\ window_ # <<>>
    /\ SensorType \in DOMAIN transforms_
    /\ transforms_[SensorType] = "double"

\* Validator[0, 100], a moving average over 3 values, an identity transform
MovingAverageOfThree ==
    /\ minValid_ = Real(0)
    /\ maxValid_ = Real(100)
    /\ strategyType_ = "MovingAverage"
    /\ windowSize_ = 3
    /\ transforms_ = [type \in {SensorType} |-> "identity"]

\* the filter, holding window, turns the valid value into output and is left
\* holding after
FilterTurns(window, value, output, after) ==
    (/\ handling = "DataFilter"
     /\ reading = SensorReading(SensorType, Real(value), TRUE)
     /\ window_ = window) =>
        /\ reading' = SensorReading(SensorType, Real(output), TRUE)
        /\ window_' = after

RECURSIVE SumOf(_)
SumOf(window) == IF window = <<>> THEN 0 ELSE Head(window) + SumOf(Tail(window))

\* the last n elements of seq, or all of it
LastOf(seq, n) ==
    IF Len(seq) <= n THEN seq ELSE SubSeq(seq, Len(seq) - n + 1, Len(seq))

\* C22: with Validator[0, 100], MovingAverage over 3 and an identity transform
\* the valid readings 50, 52, 54, 56, met with the windows that they leave one
\* another from an empty one, are turned into 50, 51, 52, 53, and neither the
\* validator nor the transformer changes them; for every window size the
\* output of the moving average is the sum of the window before insertion and
\* the new value, divided by the window length + 1 (up to the rounding of
\* the additions and of the division), and the window then holds the last at
\* most windowSize_ values as they came to the filter.
C22_MovingAverageOverPreFilterValues ==
    [][/\ MovingAverageOfThree =>
            /\ FilterTurns(<<>>, 50, 50, <<Real(50)>>)
            /\ FilterTurns(<<Real(50)>>, 52, 51, <<Real(50), Real(52)>>)
            /\ FilterTurns(<<Real(50), Real(52)>>, 54, 52,
                           <<Real(50), Real(52), Real(54)>>)
            /\ FilterTurns(<<Real(50), Real(52), Real(54)>>, 56, 53,
                           <<Real(52), Real(54), Real(56)>>)
            /\ (handling \in {"DataValidator", "DataTransformer"}
                   /\ reading.isValid
                   /\ ~OutOfRange(reading.processedValue, minValid_, maxValid_)) =>
                    reading' = reading
       /\ (/\ handling = "DataFilter"
           /\ strategyType_ = "MovingAverage"
           /\ reading.isValid) =>
            LET k   == Len(window_) + 1
                sum == SumOf(window_) + reading.processedValue
            IN  /\ Abs(k * reading'.processedValue - sum) <= k * Spacing(sum)
                /\ window_' = LastOf(Append(window_, reading.processedValue),
                                     windowSize_)]_vars

\* the fourth reading, 56, has left the filter as 53, the three before it
\* having been 50, 52 and 54
C22_Witness ==
    /\ MovingAverageOfThree
    /\ handling = "DataTransformer"
    /\ Len(trail) = 2
    /\ trail[2].reading = SensorReading(SensorType, Real(56), TRUE)
    /\ reading = SensorReading(SensorType, Real(53), TRUE)
    /\ window_ = <<Real(52), Real(54), Real(56)>>

\* the Threshold filter meets a valid reading with a window that still holds
\* every reading since it was empty
ThresholdMeets ==
    /\ handling = "DataFilter"
    /\ strategyType_ = "Threshold"
    /\ reading.isValid
    /\ window_ # <<>>
    /\ Len(window_) < windowSize_

\* the reading at position i of such a window was rejected as a spike: it
\* differs from the reading before it by more than maxDelta
Rejected(window, i) == i > 1 /\ Abs(window[i] - window[i - 1]) > maxDelta

\* the most recent reading of such a window that was emitted unchanged
RECURSIVE LastAccepted(_)
LastAccepted(window) ==
    IF Rejected(window, Len(window))
    THEN LastAccepted(SubSeq(window, 1, Len(window) - 1))
    ELSE window[Len(window)]

\* C23: with the Threshold strategy a valid reading that differs from the
\* previous reading by more than 5.0 leaves the filter as the most recent
\* value the filter emitted unchanged, and so never as a value it rejected.
C23_SpikeYieldsLastAcceptedValue ==
    [][(/\ ThresholdMeets
        /\ Abs(reading.processedValue - window_[Len(window_)]) > maxDelta) =>
            reading'.processedValue = LastAccepted(window_)]_vars

\* the moving average meets a valid reading of value c with a window that
\* holds nothing but c
ConstantStream(c) ==
    /\ handling = "DataFilter"
    /\ strategyType_ = "MovingAverage"
    /\ reading = SensorReading(SensorType, c, TRUE)
    /\ \A i \in 1..Len(window_) : window_[i] = c

\* x is a double: a multiple of the spacing of the doubles around it
IsDouble(x) == x % Spacing(x) = 0

\* C24 as stated: on a stream of valid readings of one value c, begun with an
\* empty window, the moving average gives c from the windowSize_-th reading on.
C24_ConstantStreamYieldsConstant ==
    [][\A c \in Samples :
        (ConstantStream(c) /\ Len(window_) + 1 >= windowSize_) =>
            reading'.processedValue = c]_vars

\* C24 (amended): on such a stream the moving average gives c at every reading
\* for which the sums c + c, c + c + c, ... up to the window length + 1 are
\* doubles, and otherwise a value within the rounding of that sum of c.
C24_ConstantStreamYieldsConstantUpToRounding ==
    [][\A c \in Samples :
        ConstantStream(c) =>
            LET k == Len(window_) + 1
            IN  /\ (\A j \in 1..k : IsDouble(j * c)) =>
                    reading'.processedValue = c
                /\ Abs(k * reading'.processedValue - k * c)
                       <= k * Spacing(k * c)]_vars

\* the fourth reading of a stream of 50s has left the filter of window size 3
\* as 50
C24_Witness ==
    /\ strategyType_ = "MovingAverage"
    /\ windowSize_ = 3
    /\ handling = "DataTransformer"
    /\ Len(trail) = 2
    /\ trail[2].reading = SensorReading(SensorType, Real(50), TRUE)
    /\ reading = SensorReading(SensorType, Real(50), TRUE)
    /\ window_ = <<Real(50), Real(50), Real(50)>>
    /\ \A j \in 1..4 : IsDouble(j * Real(50))

\* ------------------------------------------------------------------ properties of the read cycle

\* the thread of SensorService::sensorLoop
SensorThread == "worker"

\* the step calls publish("sensor.reading", evt) from the thread's own code
PublishesSensorEvent(t) ==
    /\ stack[t] = <<>>
    /\ req[t] = NoReq
    /\ req'[t].op = "publish"
    /\ req'[t].topic = TopicSensor

\* the SensorEvent of the reading the pipeline has returned
EventOf(r) == SensorEvent(sensorTypeToString(r.type), r.processedValue)

\* C25: in a read cycle publish("sensor.reading", ...) is called for the
\* reading that the pipeline has returned if and only if that reading is
\* valid, and with its type and value; for an invalid one the cycle moves on
\* with no call to the bus; and whatever is in flight on the bus, a rule
\* evaluation, a command or an alert included, is in flight for a valid
\* reading, no command being recorded and no device changing state otherwise.
C25_SensorEventIffValidAfterPipeline ==
    [][LET t == SensorThread
       IN  /\ PublishesSensorEvent(t) =>
                /\ InHand(t)
                /\ reading.isValid
                /\ req'[t].data = EventOf(reading)
           /\ (InHand(t) /\ reading.isValid) => PublishesSensorEvent(t)
           /\ (InHand(t) /\ ~reading.isValid) =>
                /\ ~InHand(t)'
                /\ Idle(t)'
                /\ UNCHANGED <<stack, req, currentState_, history_, reading>>
           /\ (stack'[t] # <<>>) =>
                /\ reading'.isValid
                /\ stack'[t][1].topic = TopicSensor
                /\ stack'[t][1].data = EventOf(reading')
           /\ (history_' # history_ \/ currentState_' # currentState_) =>
                /\ stack[t] # <<>>
                /\ Top(stack[t]).kind \in {AutomationKind, "exec"}]_vars

\* a reading that came valid from its sensor and that the validator marked
\* invalid has been through the three handlers and has been skipped
C25_Witness ==
    /\ ret[SensorThread] = Returned("readOnce", NoTopic)
    /\ Len(trail) = 3
    /\ trail[1].reading.isValid
    /\ ~reading.isValid
    /\ stack[SensorThread] = <<>>
    /\ req[SensorThread] = NoReq

\* the publish of the SensorEvent, the outermost call of the thread, returns
SensorPublishReturns(t) ==
    /\ Len(stack[t]) = 1
    /\ stack[t][1].kind = "publish"
    /\ stack[t][1].topic = TopicSensor
    /\ stack'[t] = <<>>
    /\ ret'[t].status = "ok"

\* the next reading enters the pipeline
ReadingEnters == handling = NoHandler /\ handling' # NoHandler

\* executeAction calls publish("alert", ...) for the rule it has executed
AlertCall(t) ==
    /\ req[t] = NoReq
    /\ req'[t].op = "publish"
    /\ req'[t].topic = TopicAlert

\* a DeviceEvent is being delivered, or a command is being executed
DeviceWorkInFlight(t) ==
    \E i \in 1..Len(stack[t]) :
        stack[t][i].kind = "exec" \/ stack[t][i].topic = TopicDevice

\* C26: when the publish of a reading's SensorEvent returns, every subscriber
\* of the reading has been invoked and has returned, and no call, command or
\* delivery is left in flight; a reading enters the pipeline only when the
\* thread has nothing in flight from the reading before; and when
\* executeAction calls publish for the alert of a rule, the command of that
\* rule is recorded in the history, its device is in the state the action
\* leads to, and the publish of the DeviceEvent has returned with every
\* subscriber invoked; no AlertEvent is in delivery while a DeviceEvent is.
C26_ReadingProcessedBeforeNextOneEnters ==
    [][LET t == SensorThread
           f == Top(stack[t])
           rule == f.rules[f.idx]
       IN  /\ SensorPublishReturns(t) =>
                /\ f.idx > Len(f.subs)
                /\ f.invoked = Ids(f.start)
                /\ req'[t] = NoReq
                /\ mutex_' # t
           /\ ReadingEnters => Idle(t) /\ ret[t].status # "running"
           /\ AlertCall(t) =>
                /\ f.kind = AutomationKind
                /\ history_ # <<>>
                /\ Top(history_).dev = rule.targetDeviceId
                /\ Top(history_).fwd = rule.action
                /\ currentState_[rule.targetDeviceId] =
                       (IF rule.action = "activate" THEN "ActiveState"
                                                    ELSE "IdleState")
                /\ ended[t].by = "return"
                /\ ended[t].all
                /\ ~DeviceWorkInFlight(t)
           /\ (\E i \in 1..Len(stack[t]) : stack[t][i].topic = TopicAlert) =>
                ~DeviceWorkInFlight(t)]_vars

\* the publish of a reading has returned after a rule activated the fan and
\* published its alert, and the next reading can enter
C26_Witness ==
    /\ Idle(SensorThread)
    /\ ret[SensorThread] = Returned("publish", TopicSensor)
    /\ history_ # <<>>
    /\ currentState_["fan_01"] = "ActiveState"
    /\ "fan_01" \in reported
    /\ ended[SensorThread].by = "return"
    /\ ENABLED Read(SensorThread)

\* ------------------------------------------------------------------ properties of two threads at one device

StateTypes == {GetType(s) : s \in StateClasses}

\* C27: every registered device has exactly one current state at all times,
\* and a state query that runs while another thread executes a transition of
\* the device answers with a complete state, the old one or the new one.
C27_ConcurrentQuerySeesOldOrNewState ==
    /\ \A d \in RaceDevices : currentState_[d] \in StateClasses
    /\ \A t \in Threads :
        (ret[t].op = "getDeviceState" /\ ret[t].status = "ok") =>
            ret[t].value \in StateTypes

\* ------------------------------------------------------------------ properties of undo and redo

\* the thread calls undoLastCommand with a command in the history
UndoCalled(t) ==
    /\ Idle(t)
    /\ history_ # <<>>
    /\ ret'[t] = Running("undoLastCommand", NoTopic)

\* the thread calls redoLastCommand with a command on the redo stack
RedoCalled(t) ==
    /\ Idle(t)
    /\ redoStack_ # <<>>
    /\ ret'[t] = Running("redoLastCommand", NoTopic)

\* the command undoLast or redoLast holds
InFlight(t) == Top(stack[t]).cmd

HandlersCalled(calls) == [i \in 1..Len(calls) |-> calls[i].handler]

\* C29: when process returns, a reading that was already invalid when it
\* reached the validator has been handled by the validator alone and comes
\* back as it came, while a reading that the validator itself found out of
\* range has been handed, with isValid = false, to the filter and then to
\* the transformer.
C29_InvalidReturnedAtOnceOutOfRangeForwarded ==
    [][ProcessReturns =>
        /\ ~Input.isValid =>
            /\ trail' = <<Called("DataValidator", Input)>>
            /\ reading' = Input
        /\ (Input.isValid
               /\ OutOfRange(Input.processedValue, minValid_, maxValid_)) =>
            LET marked == [Input EXCEPT !.isValid = FALSE]
            IN  trail' = <<Called("DataValidator", Input),
                           Called("DataFilter", marked),
                           Called("DataTransformer", marked)>>]_vars

\* a reading in range that its sensor had marked invalid has come back from
\* the validator, with a filter and a transformer behind it that have
\* handled readings before
C29_Witness ==
    /\ handling = NoHandler
    /\ trail = <<Called("DataValidator", reading)>>
    /\ ~reading.isValid
    /\ ~OutOfRange(reading.processedValue, minValid_, maxValid_)
    /\ next_["DataValidator"] = "DataFilter"
    /\ next_["DataFilter"] = "DataTransformer"
    /\ window_ # <<>>

\* the filter is about to handle the reading
FilterHandles == handling = "DataFilter"

Arrived ==
    LET calls == SelectSeq(trail, LAMBDA c : c.handler = "DataFilter" /\ c.reading.isValid)
    IN  [i \in 1..Len(calls) |-> calls[i].reading]

ValuesOf(readings) == [i \in 1..Len(readings) |-> readings[i].processedValue]

Front(seq) == SubSeq(seq, 1, Len(seq) - 1)

\* the filter has just returned from a valid reading of sensor B
FilteredB ==
    /\ trail # <<>>
    /\ trail[Len(trail)].handler = "DataFilter"
    /\ trail[Len(trail)].reading.isValid
    /\ trail[Len(trail)].reading.type = "SensorType::Humidity"

\* C31: the window of the filter is the last windowSize_ pre-filter values of
\* the valid readings of sensor A and of sensor B together, in arrival
\* order, and the output for a reading of B is that of the strategy on the
\* window made of the readings of both sensors before it
C31_OneWindowForAllSensors ==
    /\ window_ = LastOf(ValuesOf(Arrived), windowSize_)
    /\ FilteredB =>
          reading.processedValue =
              currentStrategy_(ValueOf("SensorType::Humidity"),
                               LastOf(ValuesOf(Front(Arrived)), windowSize_))

\* a reading of B right after one of A under Threshold: the output for B is
\* the value of A
C31_Witness ==
    /\ FilteredB
    /\ strategyType_ = "Threshold"
    /\ Len(Arrived) >= 2
    /\ Arrived[Len(Arrived) - 1].type = "SensorType::Temperature"
    /\ reading.processedValue = ValueOf("SensorType::Temperature")
    /\ window_[Len(window_)] = ValueOf("SensorType::Humidity")

\* ------------------------------------------------------------------ properties of addHandler

\* handlers_ is as it was or has one more handler at its end
Added == handlers_' = handlers_ \/ \E h \in DataHandlers : handlers_' = Append(handlers_, h)

\* the calls made for the reading are those of the first handlers of
\* handlers_, one each, in the order of handlers_
CalledInOrder ==
    /\ Len(trail) <= Len(handlers_)
    /\ HandlersCalled(trail) = SubSeq(handlers_, 1, Len(trail))

\* getHandlerNames returns to the thread
NamesReturned(t) == ret'[t] # ret[t] /\ ret'[t].op = "getHandlerNames"

AutomationEntries ==
    SelectSeq(Registered(TopicSensor), LAMBDA s : s.kind = AutomationKind)

\* the publish of a SensorEvent returns
SensorPublishEnds(t) ==
    /\ stack[t] # <<>>
    /\ Top(stack[t]).kind = "publish"
    /\ Top(stack[t]).topic = TopicSensor
    /\ Len(stack'[t]) < Len(stack[t])

\* the callbacks of the service the publish that ends has invoked
Evaluations(t) ==
    LET f == Top(stack[t])
    IN  SelectSeq(f.invoked, LAMBDA id : \E i \in 1..Len(f.start) :
                     f.start[i].id = id /\ f.start[i].kind = AutomationKind)

\* C33: with startListening and shutdown called in any order the registry
\* never holds more than one subscription of the service; listening_ is true
\* after a startListening and false after a shutdown and changes with no
\* other call; and a publish of a SensorEvent, when it returns, has called
\* evaluateRules once if the service listened and not at all if it did not.
C33_AtMostOneSensorSubscription ==
    /\ [](Len(AutomationEntries) <= 1)
    /\ [](ret["main"].op = "startListening" => listening_)
    /\ [](ret["main"].op = "shutdown" => ~listening_)
    /\ [][listening_' # listening_ =>
             ret'["main"].op \in {"startListening", "shutdown"}]_vars
    /\ [][SensorPublishEnds("main") =>
             Len(Evaluations("main")) = IF listening_ THEN 1 ELSE 0]_vars

\* a second startListening has returned and the publish after it is about to
\* return with one evaluation
C33_Witness ==
    /\ listening_
    /\ nextId_ = 2 + MaxListens
    /\ stack["main"] # <<>>
    /\ Top(stack["main"]).kind = "publish"
    /\ Top(stack["main"]).idx > Len(Top(stack["main"]).subs)
    /\ Len(Top(stack["main"]).invoked) = 1

\* startListening returns to the thread
StartListeningReturns(t) ==
    /\ Idle(t)
    /\ ret'[t].op = "startListening"
    /\ ended'[t] = NoEnded
    /\ stack'[t] = <<>>

\* C37: whenever listening_ is true the subscription sensorSubId_ of the
\* service is in the registry, whatever was cleared, and when a
\* startListening returns the service is subscribed.
C37_ListeningServiceIsSubscribed ==
    /\ [](listening_ => sensorSubId_ \in IdSet(AutomationEntries))
    /\ [][StartListeningReturns("main") /\ ret'["main"].op # ret["main"].op
             => Len(AutomationEntries') = 1]_vars

\* ------------------------------------------------------------------ properties of removeDevice

\* the devices in devices_
RegisteredDevices == {d \in DeviceIds : currentState_[d] # Absent}

\* undoLast takes the last command of the history
UndoTakes == history_ # <<>> /\ history_' = Pop(history_)

\* redoLast takes the top of the redo stack
RedoTakes == redoStack_ # <<>> /\ redoStack_' = Pop(redoStack_)

\* C34: every command in the history and in the redo stack refers to the
\* context of a device that is registered, and so does the command of every
\* undo and of every redo at the time of the call.
C34_HeldCommandsReferToRegisteredDevices ==
    /\ [](Referenced \subseteq RegisteredDevices)
    /\ [][UndoTakes => Top(history_).dev \in RegisteredDevices]_vars
    /\ [][RedoTakes => Top(redoStack_).dev \in RegisteredDevices]_vars

\* ------------------------------------------------------------------ properties of rules with an unregistered target

\* evaluateRules is at a rule whose target device is not registered
AtUnregisteredTarget(t) ==
    /\ Evaluating(t, "guard")
    /\ Top(stack[t]).idx <= Len(Top(stack[t]).rules)
    /\ currentState_[Top(stack[t]).rules[Top(stack[t]).idx].targetDeviceId] = Absent

\* the loop of evaluateRules moves on to the next rule with no command and
\* no alert for this one
RuleSkipped(t) ==
    /\ Len(stack'[t]) = Len(stack[t])
    /\ Top(stack'[t]).kind = AutomationKind
    /\ Top(stack'[t]).pc = "guard"
    /\ Top(stack'[t]).idx = Top(stack[t]).idx + 1
    /\ Top(stack'[t]).cmds = Top(stack[t]).cmds
    /\ Top(stack'[t]).alerts = Top(stack[t]).alerts

\* C35: the turn of the loop of evaluateRules for a rule whose target device
\* is not registered executes no command, publishes no alert and leaves the
\* publish of the SensorEvent running: the loop moves on to the next rule.
C35_UnregisteredTargetIsSkipped ==
    [][AtUnregisteredTarget("main") =>
          /\ RuleSkipped("main")
          /\ ret'["main"].status # "throw"
          /\ UNCHANGED <<history_, redoStack_, currentState_, req>>]_vars

\* ------------------------------------------------------------------ properties of commands that change nothing

\* no transition has published since the call of the thread began: the
\* forward event of the command in flight was not applicable
NothingMoved(t) == ended[t] = NoEnded /\ req[t].op = "none"

\* the command was executed on an empty history in a state its forward
\* event does not apply to
MovedNothing(cmd) == cmd.was # NotKept /\ After(cmd.was, cmd.fwd) = cmd.was

\* C36: an operation of the controller whose forward event is not applicable
\* to the state of the device leaves the history and the redo stack as they
\* were when it returns, and the undo of a command that did not move its
\* device does not move it either.
C36_OnlyCommandsThatMovedAreKept ==
    [][/\ (ExecuteReturns("main") /\ NothingMoved("main")) =>
              UNCHANGED <<history_, redoStack_>>
       /\ (UndoCalled("main") /\ MovedNothing(Top(history_))) =>
              UNCHANGED currentState_
      ]_vars

\* ------------------------------------------------------------------ properties of the subscription ids

\* the entries of the registry: <<topic, position>>
Entries == {<<x, i>> : x \in DOMAIN subscribers, i \in 1..MaxBusSubs} \cap
               {e \in (DOMAIN subscribers) \X (1..MaxBusSubs) :
                    e[2] <= Len(subscribers[e[1]])}

\* the thread leaves the critical section of the call op
Leaves(t, op) == mutex_ = t /\ req[t].op = op /\ req'[t].op = "none"

\* C38: no two entries of the registry, on one topic or on two, have the
\* same id, and every id in use or given out before is below nextId_, which
\* never decreases; a subscribe, on any thread, gives out nextId_ and moves
\* it on by one; an unsubscribe takes at most one entry out of the list of
\* its topic, the one with its id, and leaves the other topics alone.
C38_SubscriptionIdsAreUnique ==
    /\ [](\A e, g \in Entries :
             e # g => subscribers[e[1]][e[2]].id # subscribers[g[1]][g[2]].id)
    /\ [](\A e \in Entries : subscribers[e[1]][e[2]].id < nextId_)
    /\ [](\A e \in live : e[2] < nextId_)
    /\ [][nextId_' >= nextId_]_vars
    /\ [][\A t \in Threads : Leaves(t, "subscribe") =>
             /\ nextId_' = nextId_ + 1
             /\ \A x \in BusTopics :
                    Registered(x)' =
                        IF x = req[t].topic
                        THEN Append(Registered(x), Subscriber(nextId_, req[t].kind))
                        ELSE Registered(x)
             /\ stack[t] = <<>> => ret'[t].value = nextId_]_vars
    /\ [][\A t \in Threads : Leaves(t, "unsubscribe") =>
             \A x \in BusTopics :
                IF x = req[t].topic
                THEN /\ Len(Registered(x)') >= Len(Registered(x)) - 1
                     /\ IdSet(Registered(x)') = IdSet(Registered(x)) \ {req[t].id}
                ELSE Registered(x)' = Registered(x)]_vars

\* two ids were given out, the unsubscribe of one of them has returned
\* having erased one entry, and the other entry is still there
C38_Witness ==
    /\ nextId_ = MaxBusSubs
    /\ ret["main"].op = "unsubscribe"
    /\ ret["main"].status = "ok"
    /\ ret["main"].value = 1
    /\ Cardinality(live) = MaxBusSubs - 1
    /\ \E e \in Entries : TRUE

\* ------------------------------------------------------------------ properties of the window of the filter

\* handle of the filter returns from a valid reading
FilterKeeps == FilterHandles /\ reading.isValid

\* C39: whenever no operation of the filter is under way the window holds at
\* most windowSize_ values; setWindowSize keeps the last values of the
\* window, as many as the new size allows, and handle of a valid reading
\* keeps the last values of the window and the value of the reading after
\* them, windowSize_ in all at most.
C39_WindowNeverExceedsWindowSize ==
    /\ [](Len(window_) <= windowSize_)
    /\ [][windowSize_' # windowSize_ => window_' = LastOf(window_, windowSize_')]_vars
    /\ [][FilterKeeps =>
             window_' = LastOf(Append(window_, reading.processedValue), windowSize_)]_vars

\* ------------------------------------------------------------------ properties of the shared history

\* the devices whose state the step changes
Moved == {d \in DeviceIds : currentState_'[d] # currentState_[d]}

\* the step is the call of an operation of the controller on device d
OperationCalled(t, d) ==
    /\ Idle(t)
    /\ ret'[t].op \in DeviceOps
    /\ ret'[t].arg = d
    /\ ret'[t].status = "running"

\* C40: a step changes the state of one device at most; the call of an
\* operation changes none but the device named in the call, the call of
\* undoLastCommand none but the device of the last command of the history,
\* which it takes whatever device it belongs to, and the call of
\* redoLastCommand none but the device of the top of the redo stack.
C40_OnlyTheDeviceOfTheCommandMoves ==
    [][/\ Cardinality(Moved) <= 1
       /\ \A d \in DeviceIds : OperationCalled("main", d) =>
             /\ Moved \subseteq {d}
             /\ InFlight("main")'.dev = d
       /\ UndoCalled("main") =>
             /\ Moved \subseteq {Top(history_).dev}
             /\ InFlight("main")' = Top(history_)
             /\ history_' = Pop(history_)
       /\ RedoCalled("main") =>
             /\ Moved \subseteq {Top(redoStack_).dev}
             /\ InFlight("main")' = Top(redoStack_)
             /\ redoStack_' = Pop(redoStack_)
      ]_vars

\* after activateDevice of fan_01 and then of alarm_01, undoLastCommand is
\* under way: it has moved alarm_01 back and fan_01 is still Active
C40_Witness ==
    /\ stack["main"] # <<>>
    /\ Top(stack["main"]).kind = "undo"
    /\ Top(stack["main"]).cmd.dev = "alarm_01"
    /\ Len(history_) = 1
    /\ history_[1].dev = "fan_01"
    /\ history_[1].fwd = "activate"
    /\ currentState_["fan_01"] = "ActiveState"
    /\ currentState_["alarm_01"] = "IdleState"

====
